---- MODULE Spec2Model ----
(***************************************************************************)
(* A model of the payment engine of this repository:                       *)
(*   - handlers/payment_handler.py: Offer, OfferManager, SBPPaymentProcessor*)
(*     and PaymentProcessor (the "processor");                             *)
(*   - handlers/payment_handlers.py: PaymentHandler (the "handler").       *)
(* Money is counted in minor units (1000.00 is 100000); Decimal arithmetic *)
(* is exact, and the amounts and percentages drawn below keep every        *)
(* product amount * percentage a multiple of 100.  Time is a counter that  *)
(* Tick advances; datetime.utcnow() reads it.                              *)
(***************************************************************************)
EXTENDS Integers, Sequences, FiniteSets, TLC

\* ------------------------------------------------------------- bounds
NumThreads == 2
MaxTxn == 2
MaxTxnRich == 1
MaxTime == 1
MaxUsage == 2
MaxIds == 2

\* Python's None, for the Optional numeric fields of Offer.
None == -1

Threads == 1..NumThreads

Min(a, b) == IF a <= b THEN a ELSE b

\* Python truthiness of an Optional number: None and 0 are falsy.
Truthy(x) == x # None /\ x # 0

\* ------------------------------------------------------------- Offer

MkOffer(id, type, pct, cashback, min_amount, max_discount, from, until, limit) ==
  [id |-> id, type |-> type, discount_percentage |-> pct,
   cashback_amount |-> cashback, min_amount |-> min_amount,
   max_discount |-> max_discount, valid_from |-> from, valid_until |-> until,
   is_active |-> TRUE, usage_limit |-> limit, current_usage |-> 0,
   float_cashback |-> FALSE]

\* OfferManager._initialize_default_offers, built at time 0.
default_offers ==
  << MkOffer("offer_001", "discount", 10, None, 1000, 5000, 0, 30, None),
     MkOffer("offer_002", "cashback", None, 500, 5000, None, 0, 90, None),
     MkOffer("offer_003", "free_shipping", None, None, 50000, None, 0, 60, None) >>

\* Offers a caller registers with add_offer: one with a usage limit of
\* UsageLimitN, one with a usage limit of 0.
UsageLimitN == 1

AddableOffers ==
  { MkOffer("offer_lim", "discount", 50, None, 0, None, None, None, UsageLimitN),
    MkOffer("offer_zero", "cashback", None, 500, 0, None, None, None, 0) }

\* The offers a caller registers: the addable ones, and one that reuses the
\* id of a default offer with other terms.
RegisterOffers ==
  AddableOffers \cup
    { MkOffer("offer_001", "discount", 50, None, 0, None, None, None, None) }

\* An offer whose cashback_amount was given as a float (5.0) where the
\* field is declared a Decimal; the dataclass takes it as it comes.
FloatOffers ==
  { [MkOffer("offer_float", "cashback", None, 500, 0, None, None, None, None)
       EXCEPT !.float_cashback = TRUE] }

\* Offer.is_valid at time t.
is_valid(o, t) ==
  /\ o.is_active
  /\ ~(o.valid_from # None /\ t < o.valid_from)
  /\ ~(o.valid_until # None /\ t > o.valid_until)
  /\ ~(Truthy(o.usage_limit) /\ o.current_usage >= o.usage_limit)

\* calculate_discount paying the whole cashback_amount, whatever the amount.
calculate_discount_whole_cashback(o, amount, t) ==
  IF ~is_valid(o, t) THEN 0
  ELSE IF amount < o.min_amount THEN 0
  ELSE IF o.type = "discount" /\ Truthy(o.discount_percentage)
    THEN LET discount == (amount * o.discount_percentage) \div 100
         IN  IF Truthy(o.max_discount) THEN Min(discount, o.max_discount)
             ELSE discount
  ELSE IF o.type = "cashback" /\ Truthy(o.cashback_amount)
    THEN o.cashback_amount
  ELSE 0

\* Offer.calculate_discount at time t.
calculate_discount(o, amount, t) ==
  IF ~is_valid(o, t) THEN 0
  ELSE IF amount < o.min_amount THEN 0
  ELSE IF o.type = "discount" /\ Truthy(o.discount_percentage)
    THEN LET discount == (amount * o.discount_percentage) \div 100
         IN  IF Truthy(o.max_discount) THEN Min(discount, o.max_discount)
             ELSE discount
  ELSE IF o.type = "cashback" /\ Truthy(o.cashback_amount)
    THEN Min(o.cashback_amount, amount)
  ELSE 0

\* line 98 on a float cashback_amount: min(cashback_amount, amount) is the
\* float unless the amount is below it, and the discount comes out a float.
discount_is_float(o, amount) ==
  /\ o.type = "cashback" /\ Truthy(o.cashback_amount)
  /\ o.float_cashback
  /\ ~(amount < o.cashback_amount)

\* ------------------------------------------------------ inputs drawn

Amounts == {0, 10000, 100000}

\* Ids a caller may name in offer_ids: registered ones and one unknown.
OfferIdPool == {"offer_001", "offer_lim", "offer_zero", "offer_unknown"}

RECURSIVE SeqsUpTo(_, _)
SeqsUpTo(S, n) ==
  IF n = 0 THEN {<<>>}
  ELSE LET shorter == SeqsUpTo(S, n - 1)
       IN  shorter \cup {Append(s, x) : s \in {q \in shorter : Len(q) = n - 1}, x \in S}

OfferIdLists == SeqsUpTo(OfferIdPool, MaxIds)

\* (payment_method, sbp_details) pairs a caller passes to create_transaction.
\* sbp_details "empty" is the default {}, "valid" holds a well-formed phone,
\* bank_code and account_number, "malformed" holds phone = None (on which
\* _validate_phone raises AttributeError).  The dict is stored as it comes
\* (sbp_details or {}, line 422), so a caller who passes the dict of an
\* earlier call ("same" in the inputs' dicts) makes two transactions hold
\* one dict; sbp_obj of a transaction names the dict it holds.
PaymentKinds ==
  { <<"card", "empty">>, <<"sbp", "valid">>, <<"sbp", "empty">>, <<"sbp", "malformed">> }

Reasons == {"", "duplicate"}

\* A metadata key that is not set.
Absent == "<absent>"

\* ------------------------------------- RobokassaHandler: strings
\* payments/robokassa_handler.py.  A string is a sequence of atoms; an atom
\* is a piece of text or a run of decimal digits spelling a number, so that
\* formatting and parsing a number, and joining strings, are computed.

Txt(s) == [k |-> "txt", s |-> s, n |-> 0]
Num(n) == [k |-> "num", s |-> "", n |-> n]
Colon == Txt(":")
Point == Txt(".")
Equals == Txt("=")

\* What webhook_data.get(key) finds when the key is not there.
Missing == << [k |-> "missing", s |-> "", n |-> 0] >>

\* A str holding a character that is not ASCII.
NonAscii == << [k |-> "nonascii", s |-> "", n |-> 0] >>

\* str(None)
NoneText == << Txt("None") >>

\* A Python number: an int, or a float counted in thousandths.
IntNumber(n) == [is_int |-> TRUE, milli |-> n * 1000]
FloatNumber(m) == [is_int |-> FALSE, milli |-> m]

\* The decimals str() prints for a float: those of the thousandths without
\* the trailing zeros, and one at least.
FracDigits(f) ==
  LET d1 == f \div 100
      d2 == (f \div 10) % 10
      d3 == f % 10
  IN  IF d3 # 0 THEN << Num(d1), Num(d2), Num(d3) >>
      ELSE IF d2 # 0 THEN << Num(d1), Num(d2) >>
      ELSE << Num(d1) >>

\* str(x) of a number: "1000" for the int 1000, "1000.0" for the float
\* 1000.0, "1000.01" for 1000.01.
str_number(x) ==
  IF x.is_int THEN << Num(x.milli \div 1000) >>
  ELSE << Num(x.milli \div 1000), Point >> \o FracDigits(x.milli % 1000)

\* round(x, 2): an int stays as it is, a float goes to the nearest
\* hundredth (the amounts drawn are never halfway between two).
round2(x) ==
  IF x.is_int THEN x
  ELSE [x EXCEPT !.milli = ((x.milli + 5) \div 10) * 10]

\* float(s) accepts digits, optionally followed by a point and decimals
\* (up to thousandths here); on any other text it raises ValueError.
IsNumberText(s) ==
  /\ Len(s) \in {1, 3, 4, 5}
  /\ s[1].k = "num"
  /\ Len(s) > 1 => /\ s[2] = Point
                   /\ \A i \in 3..Len(s) : s[i].k = "num" /\ s[i].n <= 9

float_of(s) ==
  LET digit(i) == IF i <= Len(s) THEN s[i].n ELSE 0
  IN  FloatNumber(s[1].n * 1000 + digit(3) * 100 + digit(4) * 10 + digit(5))

\* ":".join(parts)
RECURSIVE Join(_)
Join(parts) ==
  IF Len(parts) = 0 THEN <<>>
  ELSE IF Len(parts) = 1 THEN parts[1]
  ELSE parts[1] \o << Colon >> \o Join(Tail(parts))

\* hashlib.md5(s.encode()).hexdigest(), taken as free of collisions: the
\* digest of s is s behind a mark.
md5(s) == << [k |-> "md5", s |-> "", n |-> 0] >> \o s

\* extra_params is a dict from keys to strings (None and {} are <<>>);
\* sorted(extra_params.keys()) orders the keys as strings.
ExtraKeys == << "PaymentMethod", "Phone" >>
NoExtra == <<>>

SortedKeys(extra_params) ==
  SelectSeq(ExtraKeys, LAMBDA key : key \in DOMAIN extra_params)

\* _generate_signature signing the whole units of the amount only.
generate_signature_whole_amount(merchant_id, amount, order_id, password, extra_params) ==
  LET keys == SortedKeys(extra_params)
      extras == [i \in 1..Len(keys) |-> << Txt(keys[i]), Equals >> \o extra_params[keys[i]]]
  IN  md5(Join(<< merchant_id, << Num(amount.milli \div 1000) >>, order_id >>
               \o extras \o << password >>))

\* RobokassaHandler._generate_signature
generate_signature(merchant_id, amount, order_id, password, extra_params) ==
  LET keys == SortedKeys(extra_params)
      extras == [i \in 1..Len(keys) |-> << Txt(keys[i]), Equals >> \o extra_params[keys[i]]]
  IN  md5(Join(<< merchant_id, str_number(amount), order_id >> \o extras \o << password >>))

\* hmac.compare_digest(a, b) on two str: TypeError unless both are ASCII.
compare_digest(a, b) ==
  IF a = NonAscii \/ b = NonAscii THEN "raise"
  ELSE IF a = b THEN "true" ELSE "false"

\* RobokassaHandler._verify_signature (called without extra_params): what it
\* returns, or that it raised, and the line it logs.
verify_signature(config, merchant_id, amount, order_id, provided_signature) ==
  LET with2 == generate_signature(merchant_id, amount, order_id, config.password2, NoExtra)
      with1 == generate_signature(merchant_id, amount, order_id, config.password1, NoExtra)
      first == compare_digest(provided_signature, with2)
      second == compare_digest(provided_signature, with1)
  IN  IF first = "raise" THEN [result |-> "raise", log |-> "none"]
      ELSE IF first = "true" THEN [result |-> "true", log |-> "verified"]
      ELSE IF second = "raise" THEN [result |-> "raise", log |-> "none"]
      ELSE IF second = "true" THEN [result |-> "true", log |-> "verified with password1"]
      ELSE [result |-> "false", log |-> "failed"]

\* RobokassaHandler.create_payment_url: the parameters of the URL it
\* returns (Description, Email and Phone, which are not signed, left out).
create_payment_url(config, amount, order_id, extra_params) ==
  [MerchantLogin |-> config.merchant_id,
   Sum |-> str_number(round2(amount)),
   InvId |-> order_id,
   IsTest |-> IF config.test_mode THEN << Num(1) >> ELSE << Num(0) >>,
   extra_params |-> extra_params,
   SignatureValue |-> generate_signature(config.merchant_id, amount, order_id,
                                         config.password1, extra_params)]

\* webhook_data.get(key, default)
Get(webhook_data, key, default) ==
  IF webhook_data[key] = Missing THEN default ELSE webhook_data[key]

\* A result of process_webhook: the dictionary it returns (amount None and
\* order_id empty where the dictionary has none), or raised = TRUE.
WebhookResult(raised, success, order_id, amount, operation_id, is_test, message) ==
  [raised |-> raised, success |-> success, order_id |-> order_id, amount |-> amount,
   operation_id |-> operation_id, is_test |-> is_test, message |-> message]

NoResult == WebhookResult(FALSE, FALSE, <<>>, None, <<>>, FALSE, "none")

\* RobokassaHandler.process_webhook
process_webhook(config, webhook_data) ==
  LET order_id == Get(webhook_data, "InvId", NoneText)
      sum == Get(webhook_data, "Sum", << Num(0) >>)
      signature == Get(webhook_data, "SignatureValue", <<>>)
      operation_id == Get(webhook_data, "OperationId", <<>>)
  IN  IF ~IsNumberText(sum)
      THEN WebhookResult(FALSE, FALSE, <<>>, None, <<>>, FALSE, "Error processing webhook")
      ELSE LET amount == float_of(sum)
               verified == verify_signature(config, config.merchant_id, amount,
                                            order_id, signature)
           IN  IF verified.result = "raise"
               THEN WebhookResult(TRUE, FALSE, <<>>, None, <<>>, FALSE, "TypeError")
               ELSE IF verified.result = "false"
               THEN WebhookResult(FALSE, FALSE, order_id, amount.milli, <<>>, FALSE,
                                  "Signature verification failed")
               ELSE IF webhook_data.MerchantLogin # config.merchant_id
               THEN WebhookResult(FALSE, FALSE, order_id, amount.milli, <<>>, FALSE,
                                  "Merchant ID mismatch")
               ELSE WebhookResult(FALSE, TRUE, order_id, amount.milli, operation_id,
                                  webhook_data.IsTest = << Num(1) >>,
                                  "Payment verified successfully")

\* RobokassaHandler.validate_webhook_request
validate_webhook_request(webhook_data) ==
  IF \E field \in {"InvId", "Sum", "SignatureValue", "MerchantLogin"} :
       webhook_data[field] = Missing
  THEN FALSE
  ELSE IsNumberText(webhook_data.Sum)

\* -------------------------------------------------------------- state

VARIABLES
  now,                  \* the clock datetime.utcnow() reads
  offers,               \* OfferManager.offers, in insertion order
  heap,                 \* the Transaction objects created, in allocation order
  transactions,         \* PaymentProcessor.transactions: id -> index into heap
  transaction_counter,  \* PaymentProcessor.transaction_counter
  initiated,            \* gateway: number of initiate_payment calls per object
  pc,                   \* per thread: the place in the call it runs
  loc,                  \* per thread: the arguments and locals of that call
  ret,                  \* per thread: the result of the call that last returned
  h_transactions,       \* PaymentHandler.transactions: id -> record
  h_pc,                 \* the place in the PaymentHandler call that runs
  h_cur,                \* the transaction_id of that call
  h_ret,                \* the result of the PaymentHandler call that last returned
  calc_offer,           \* calculate_discount alone: the offer it is called on,
  calc_amount,          \*   its amount argument
  calc_result,          \*   and what it returned (None before the call)
  r_config,             \* RobokassaHandler.config
  r_pc,                 \* "idle" where a RobokassaHandler is driven, "off" otherwise
  r_sent,               \* the payment requests create_payment_url has built
  r_webhook,            \* the webhook_data of the last webhook call
  r_valid,              \* what validate_webhook_request returned on it
  r_ret,                \* what process_webhook returned on it (or that it raised)
  r_verify,             \* the last _verify_signature call: arguments, result, log
  r_log,                \* the webhook calls so far: when, and the result
  oh_offers,            \* OfferHandler.offers: offer_id -> PaymentOffer
  oh_history,           \* OfferHandler.offer_history
  oh_ret                \* the OfferHandler call that last returned (or raised)

procVars == <<offers, heap, transactions, transaction_counter, initiated, pc, loc, ret>>
handlerVars == <<h_transactions, h_pc, h_cur, h_ret>>
calcVars == <<calc_offer, calc_amount, calc_result>>
roboVars == <<r_config, r_pc, r_sent, r_webhook, r_valid, r_ret, r_verify, r_log>>
offerHandlerVars == <<oh_offers, oh_history, oh_ret>>
vars == <<now, procVars, handlerVars, calcVars, roboVars, offerHandlerVars>>

\* What the actions of one component leave alone.
exceptProc == <<handlerVars, calcVars, roboVars, offerHandlerVars>>
exceptHandler == <<procVars, calcVars, roboVars, offerHandlerVars>>

\* (since is the time at which the call began; sbp_obj names the dict object
\* passed as sbp_details, 0 for one no transaction holds yet.)
IdleLoc ==
  [op |-> "none", amount |-> 0, ids_given |-> FALSE, offer_ids |-> <<>>,
   payment_method |-> "card", sbp_details |-> "empty", sbp_obj |-> 0,
   arg_id |-> 0, reason |-> "",
   cnt |-> 0, new_id |-> 0, todo |-> <<>>, total_discount |-> 0,
   applied_offers |-> <<>>, discount |-> 0, usage |-> 0, obj |-> 0, since |-> 0,
   ok |-> FALSE, msg |-> ""]

\* A call's result: success flag, message, the transaction id it was about,
\* and for display_offers the amount asked about and the offers listed.  (What apply_offers returns is
\* loc[t].total_discount and loc[t].applied_offers as apply_offers_return and
\* create_transaction_store find them.)
\* For get_transaction, seen is what the caller reads on the Transaction
\* it was handed; for add_offer, offer_id is the id of the offer passed.
NoSeen ==
  [status |-> "none", updated_at |-> None,
   metadata |-> [refund_reason |-> Absent, refunded_at |-> None]]

NoRet ==
  [op |-> "none", ok |-> FALSE, msg |-> "", id |-> 0, amount |-> 0, offers |-> <<>>,
   seen |-> NoSeen, offer_id |-> ""]

MkRet(op, ok, msg, id) ==
  [op |-> op, ok |-> ok, msg |-> msg, id |-> id, amount |-> 0, offers |-> <<>>,
   seen |-> NoSeen, offer_id |-> ""]

\* A transaction_id a caller passes to PaymentHandler: a string, or None
\* (handle_payment_request passes request_data.get("transaction_id")).
NoneId == "None"

\* (requested is the refund_amount refund_payment was given.)
NoHRet ==
  [op |-> "none", ok |-> FALSE, id |-> NoneId, status |-> "none", requested |-> None]

\* What an OfferHandler call left: the method, whether it raised, the
\* offer_id it was given.
NoOfferRet == [op |-> "none", raised |-> FALSE, offer_id |-> ""]

\* OfferHandler.__init__
OfferHandlerConstructed ==
  /\ oh_offers = <<>>
  /\ oh_history = <<>>
  /\ oh_ret = NoOfferRet

\* The state after construction.  A run drives the PaymentProcessor or the
\* PaymentHandler (they share no state): the other one is "off".
Constructed(p, h) ==
  /\ now = 0
  /\ offers = default_offers
  /\ heap = <<>>
  /\ transactions = <<>>
  /\ transaction_counter = 0
  /\ initiated = <<>>
  /\ pc = [t \in Threads |-> p]
  /\ loc = [t \in Threads |-> IdleLoc]
  /\ ret = [t \in Threads |-> NoRet]
  /\ h_transactions = <<>>
  /\ h_pc = h
  /\ h_cur = NoneId
  /\ h_ret = NoHRet
  /\ OfferHandlerConstructed

NoCalc ==
  /\ calc_offer = default_offers[1]
  /\ calc_amount = 0
  /\ calc_result = None

\* RobokassaConfig: the merchant id and the two passwords; test_mode is
\* either.
MerchantId == << Txt("shop") >>
Password1 == << Txt("p1") >>
Password2 == << Txt("p2") >>

Configs ==
  { [merchant_id |-> MerchantId, password1 |-> Password1, password2 |-> Password2,
     test_mode |-> test_mode] : test_mode \in BOOLEAN }

NoWebhook ==
  [InvId |-> Missing, Sum |-> Missing, SignatureValue |-> Missing,
   MerchantLogin |-> Missing, OperationId |-> Missing, IsTest |-> Missing]

NoVerify ==
  [merchant_id |-> <<>>, amount |-> FloatNumber(0), order_id |-> <<>>,
   provided_signature |-> <<>>, result |-> "none", log |-> "none"]

\* RobokassaHandler.__init__, before any call; p is "off" where no
\* RobokassaHandler is driven.
RoboConstructed(p) ==
  /\ r_config \in (IF p = "off" THEN {CHOOSE c \in Configs : ~c.test_mode} ELSE Configs)
  /\ r_pc = p
  /\ r_sent = <<>>
  /\ r_webhook = NoWebhook
  /\ r_valid = FALSE
  /\ r_ret = NoResult
  /\ r_verify = NoVerify
  /\ r_log = <<>>

ProcInit == Constructed("idle", "off") /\ NoCalc /\ RoboConstructed("off")
HandlerInit == Constructed("off", "idle") /\ NoCalc /\ RoboConstructed("off")

\* dict helpers
HasKey(d, k) == k \in DOMAIN d
Put(d, k, v) == [x \in (DOMAIN d) \cup {k} |-> IF x = k THEN v ELSE d[x]]

HasOffer(id) == \E i \in 1..Len(offers) : offers[i].id = id
OfferIndex(id) == CHOOSE i \in 1..Len(offers) : offers[i].id = id

Return(t, r) ==
  /\ pc' = [pc EXCEPT ![t] = "idle"]
  /\ loc' = [loc EXCEPT ![t] = IdleLoc]
  /\ ret' = [ret EXCEPT ![t] = r]

Goto(t, label) == pc' = [pc EXCEPT ![t] = label]

\* time passes
Tick ==
  /\ now < MaxTime
  /\ now' = now + 1
  /\ UNCHANGED <<exceptProc, offers, heap, transactions, transaction_counter, initiated, pc, loc, ret>>

\* ------------------------------------------- calculate_discount alone

\* The offers and amounts calculate_discount is called on.
CalcAmounts == {0, 500, 10000, 100000}

CalcOffers ==
  { [MkOffer("offer_x", type, pct, cashback, min_amount, cap, None, None, None)
       EXCEPT !.is_active = active] :
      type \in {"discount", "cashback", "free_shipping"},
      pct \in {None, 0, 10, 100}, cashback \in {None, 500},
      min_amount \in {0, 1000}, cap \in {None, 0, 5000}, active \in BOOLEAN }

CalcInit ==
  /\ Constructed("off", "off")
  /\ RoboConstructed("off")
  /\ calc_offer \in CalcOffers
  /\ calc_amount \in CalcAmounts
  /\ calc_result = None

\* offer.calculate_discount(amount) is called.
calculate ==
  /\ calc_result = None
  /\ calc_result' = calculate_discount(calc_offer, calc_amount, now)
  /\ UNCHANGED <<now, procVars, handlerVars, roboVars, offerHandlerVars, calc_offer, calc_amount>>

\* ------------------------------------------------------- OfferManager

\* OfferManager.add_offer, on one of the offers of pool
add_offer_from(t, pool) ==
  /\ pc[t] = "idle"
  /\ \E o \in pool :
       IF HasOffer(o.id)
       THEN /\ offers' = offers
            /\ ret' = [ret EXCEPT ![t] =
                         [MkRet("add_offer", FALSE, "exists", 0) EXCEPT !.offer_id = o.id]]
       ELSE /\ offers' = Append(offers, o)
            /\ ret' = [ret EXCEPT ![t] =
                         [MkRet("add_offer", TRUE, "added", 0) EXCEPT !.offer_id = o.id]]
  /\ UNCHANGED <<exceptProc, now, heap, transactions, transaction_counter, initiated, pc, loc>>

add_offer(t) == add_offer_from(t, AddableOffers)

\* OfferManager.get_available_offers: the offers (as places in the catalog)
\* that are valid and whose min_amount the amount reaches, in catalog order.
get_available_offers(amount) ==
  LET ok(i) == is_valid(offers[i], now) /\ amount >= offers[i].min_amount
  IN  SelectSeq([i \in 1..Len(offers) |-> i], ok)

\* apply_offers, "Get offers to apply": the named offers that exist, in the
\* caller's order, when offer_ids is a non-empty list; the available offers
\* otherwise.
offers_to_apply(ids_given, offer_ids, amount) ==
  LET ids == IF ids_given THEN offer_ids ELSE <<>>
      known == SelectSeq(ids, HasOffer)
  IN  IF Len(ids) > 0
      THEN [k \in 1..Len(known) |-> OfferIndex(known[k])]
      ELSE get_available_offers(amount)

\* The usage counters stay below MaxUsage when a call starts.
RECURSIVE SumUsage(_)
SumUsage(os) == IF os = <<>> THEN 0 ELSE Head(os).current_usage + SumUsage(Tail(os))

UsageBounded == SumUsage(offers) < MaxUsage

InCreate(t) == loc[t].op = "create_transaction"

\* OfferManager.apply_offers is called (directly); its first step selects
\* the offers to apply.
apply_offers_call(t, In) ==
  /\ pc[t] = "idle"
  /\ UsageBounded
  /\ \E a \in In.amounts, g \in BOOLEAN, ids \in In.offer_ids :
       /\ g \/ ids = <<>>
       /\ loc' = [loc EXCEPT ![t] =
                    [IdleLoc EXCEPT !.op = "apply_offers", !.amount = a,
                                    !.todo = offers_to_apply(g, ids, a)]]
  /\ Goto(t, "apply_loop")
  /\ UNCHANGED <<exceptProc, now, offers, heap, transactions, transaction_counter, initiated, ret>>

\* PaymentProcessor.create_transaction is called: self.transaction_counter
\* += 1 reads the counter ...
create_transaction_call(t, In) ==
  /\ pc[t] = "idle"
  /\ UsageBounded
  /\ Len(heap) + Cardinality({u \in Threads : InCreate(u)}) < In.max_txn
  /\ \E a \in In.amounts, g \in BOOLEAN, ids \in In.offer_ids, k \in In.kinds,
        d \in In.dicts :
       /\ g \/ ids = <<>>
       /\ d = "same" => Len(heap) > 0 /\ heap[Len(heap)].sbp_details # "empty"
       /\ loc' = [loc EXCEPT ![t] =
                    [IdleLoc EXCEPT !.op = "create_transaction", !.amount = a,
                                    !.ids_given = g, !.offer_ids = ids,
                                    !.payment_method = k[1],
                                    !.sbp_details = IF d = "same"
                                                    THEN heap[Len(heap)].sbp_details
                                                    ELSE k[2],
                                    !.sbp_obj = IF d = "same"
                                                THEN heap[Len(heap)].sbp_obj ELSE 0,
                                    !.cnt = transaction_counter]]
  /\ Goto(t, "ct_counter")
  /\ UNCHANGED <<exceptProc, now, offers, heap, transactions, transaction_counter, initiated, ret>>

\* ... and writes it back incremented (line 401).
create_transaction_counter(t) ==
  /\ pc[t] = "ct_counter"
  /\ transaction_counter' = loc[t].cnt + 1
  /\ loc' = [loc EXCEPT ![t].cnt = 0]
  /\ Goto(t, "ct_id")
  /\ UNCHANGED <<exceptProc, now, offers, heap, transactions, initiated, ret>>

\* line 402 formats the id from self.transaction_counter as it is by then,
\* and apply_offers (line 405) selects the offers to apply.
create_transaction_id(t) ==
  /\ pc[t] = "ct_id"
  /\ loc' = [loc EXCEPT ![t].new_id = transaction_counter,
                        ![t].todo = offers_to_apply(loc[t].ids_given, loc[t].offer_ids,
                                                    loc[t].amount),
                        ![t].ids_given = FALSE, ![t].offer_ids = <<>>]
  /\ Goto(t, "apply_loop")
  /\ UNCHANGED <<exceptProc, now, offers, heap, transactions, transaction_counter,
                 initiated, ret>>

\* apply_offers discounting every offer on the amount of the call.
remaining_original(amount, total_discount) == amount

\* line 244: the amount an offer is discounted on, what the offers applied
\* before it have left.
remaining(amount, total_discount) == amount - total_discount

\* apply_offers, "Apply each offer": the head of the loop.  A valid offer
\* with a positive discount on the remaining amount goes on to the
\* increment; any other offer is skipped.
\* line 245, "if discount > 0": whether the offer is applied (the mutation
\* applies an offer whose discount is zero too).
discount_applies_zero_too(discount) == discount >= 0

discount_applies(discount) == discount > 0

apply_offers_check(t) ==
  /\ pc[t] = "apply_loop"
  /\ Len(loc[t].todo) > 0
  /\ LET o == offers[Head(loc[t].todo)]
         discount == calculate_discount(o, remaining(loc[t].amount, loc[t].total_discount),
                                        now)
     IN  IF is_valid(o, now) /\ discount_applies(discount)
         THEN /\ loc' = [loc EXCEPT ![t].discount = discount]
              /\ Goto(t, "apply_read")
         ELSE /\ loc' = [loc EXCEPT ![t].todo = Tail(loc[t].todo)]
              /\ UNCHANGED pc
  /\ UNCHANGED <<exceptProc, now, offers, heap, transactions, transaction_counter, initiated, ret>>

\* offer.current_usage += 1 reads the counter ...
apply_offers_read(t) ==
  /\ pc[t] = "apply_read"
  /\ loc' = [loc EXCEPT ![t].usage = offers[Head(loc[t].todo)].current_usage]
  /\ Goto(t, "apply_write")
  /\ UNCHANGED <<exceptProc, now, offers, heap, transactions, transaction_counter, initiated, ret>>

\* ... and writes it back incremented (line 246); the offer is recorded
\* with its discount, which is added to the total (line 253).  Adding a
\* float to the Decimal total raises TypeError, which nothing catches: the
\* call, and the create_transaction that made it, end there.
apply_offers_increment(t) ==
  /\ pc[t] = "apply_write"
  /\ LET i == Head(loc[t].todo)
     IN  /\ offers' = [offers EXCEPT ![i].current_usage = loc[t].usage + 1]
         /\ IF discount_is_float(offers[i],
                                 remaining(loc[t].amount, loc[t].total_discount))
            THEN Return(t, MkRet(loc[t].op, FALSE, "TypeError", 0))
            ELSE /\ loc' = [loc EXCEPT
                       ![t].todo = Tail(loc[t].todo),
                       ![t].applied_offers =
                           Append(loc[t].applied_offers,
                                  [offer |-> offers[i].id,
                                   applied_discount |-> loc[t].discount]),
                       ![t].total_discount = loc[t].total_discount + loc[t].discount,
                       ![t].discount = 0, ![t].usage = 0]
                 /\ Goto(t, "apply_loop")
                 /\ UNCHANGED ret
  /\ UNCHANGED <<exceptProc, now, heap, transactions, transaction_counter, initiated>>

\* apply_offers returns (total_discount, applied_offers) to its caller.
apply_offers_return(t) ==
  /\ pc[t] = "apply_loop"
  /\ Len(loc[t].todo) = 0
  /\ loc[t].op = "apply_offers"
  /\ Return(t, MkRet("apply_offers", TRUE, "applied", 0))
  /\ UNCHANGED <<exceptProc, now, offers, heap, transactions, transaction_counter, initiated>>

\* create_transaction builds the Transaction in PENDING and stores it under
\* its id.
MkTransaction(id, l, t, obj) ==
  [id |-> id, amount |-> l.amount, payment_method |-> l.payment_method,
   sbp_details |-> l.sbp_details,
   sbp_obj |-> IF l.sbp_obj = 0 THEN obj ELSE l.sbp_obj, status |-> "pending",
   created_at |-> t, updated_at |-> t,
   applied_offers |-> l.applied_offers, total_discount |-> l.total_discount,
   final_amount |-> l.amount - l.total_discount,
   metadata |-> [refund_reason |-> Absent, refunded_at |-> None]]

create_transaction_store(t) ==
  /\ pc[t] = "apply_loop"
  /\ Len(loc[t].todo) = 0
  /\ loc[t].op = "create_transaction"
  /\ heap' = Append(heap, MkTransaction(loc[t].new_id, loc[t], now, Len(heap) + 1))
  /\ initiated' = Append(initiated, 0)
  /\ transactions' = Put(transactions, loc[t].new_id, Len(heap) + 1)
  /\ Return(t, MkRet("create_transaction", TRUE, "created", loc[t].new_id))
  /\ UNCHANGED <<exceptProc, now, offers, transaction_counter>>

\* PaymentProcessor.display_offers (and get_available_offers, which it
\* calls): lists the available offers with their discount on the amount.
display_offers(t, In) ==
  /\ pc[t] = "idle"
  /\ \E a \in In.amounts :
       LET avail == get_available_offers(a)
       IN  ret' = [ret EXCEPT ![t] =
                     [MkRet("display_offers", TRUE, "listed", 0) EXCEPT
                        !.amount = a,
                        !.offers =
                           [k \in 1..Len(avail) |->
                              [offer |-> offers[avail[k]].id,
                               applied_discount |->
                                  calculate_discount(offers[avail[k]], a, now)]]]]
  /\ UNCHANGED <<exceptProc, now, offers, heap, transactions, transaction_counter, initiated, pc, loc>>

\* OfferManager.get_offer_details hands out the Offer object of the catalog
\* itself: what a caller may then assign to its fields.
OfferEdits(o) ==
  ( { [o EXCEPT !.discount_percentage = p] : p \in {10, 50} }
    \cup { [o EXCEPT !.max_discount = c] : c \in {None, 5000} }
    \cup { [o EXCEPT !.is_active = a] : a \in BOOLEAN }
    \cup { [o EXCEPT !.current_usage = 0] } ) \ {o}

\* Transactions that read the discount of an applied offer from the offer
\* as it is now: an entry of an offer no longer active counts for nothing.
recorded_discounts_live(h, os) ==
  LET live(entry) ==
        IF \E i \in 1..Len(os) : os[i].id = entry.offer /\ ~os[i].is_active
        THEN [entry EXCEPT !.applied_discount = 0] ELSE entry
  IN  [i \in 1..Len(h) |->
         [h[i] EXCEPT !.applied_offers =
            [k \in 1..Len(h[i].applied_offers) |-> live(h[i].applied_offers[k])]]]

\* PaymentOffer, lines 103-108: applied_discount is a Decimal of its own,
\* computed when the offer was applied; the transactions once the catalog
\* holds the offers os are the transactions as they were.
recorded_discounts(h, os) == h

\* A caller gets an offer by get_offer_details and assigns to one of its
\* fields.
change_offer(t) ==
  /\ pc[t] = "idle"
  /\ \E id \in {"offer_001", "offer_002"} :
       \E o \in OfferEdits(offers[OfferIndex(id)]) :
         /\ offers' = [offers EXCEPT ![OfferIndex(id)] = o]
         /\ heap' = recorded_discounts(heap, offers')
  /\ UNCHANGED <<exceptProc, now, transactions, transaction_counter, initiated, pc, loc, ret>>

\* -------------------------------------------------- PaymentProcessor

\* Transaction ids a caller may name: those created and one never created.
TxnIds == 1..(MaxTxn + 1)

\* SBPPaymentProcessor.initiate_payment by the transaction's sbp_details:
\* validate_sbp_details fails on a missing field, raises on a phone that is
\* not a string, and the simulated API call succeeds otherwise.
initiate_payment(tx) ==
  CASE tx.sbp_details = "empty" -> "failure"
    [] tx.sbp_details = "malformed" -> "raise"
    [] OTHER -> "success"

\* process_payment and refund_transaction, lines 431-432 and 475-476: the
\* result for an id that is not stored (the mutation lets the lookup on
\* line 434 or 478 raise KeyError instead).
transaction_not_found_raises(op, id) == MkRet(op, FALSE, "KeyError", id)

transaction_not_found(op, id) == MkRet(op, FALSE, "Transaction not found", id)

\* process_payment retrying a FAILED transaction.
MayProcess_retry_failed(status) == status \in {"pending", "failed"}

\* process_payment, lines 431-437: the transaction must exist and be PENDING.
MayProcess(status) == status = "pending"

process_payment_call(t) ==
  /\ pc[t] = "idle"
  /\ \E id \in TxnIds :
       IF ~HasKey(transactions, id)
       THEN Return(t, transaction_not_found("process_payment", id))
       ELSE IF ~MayProcess(heap[transactions[id]].status)
       THEN Return(t, MkRet("process_payment", FALSE, "Transaction is not pending", id))
       ELSE /\ loc' = [loc EXCEPT ![t] =
                         [IdleLoc EXCEPT !.op = "process_payment", !.arg_id = id,
                                         !.obj = transactions[id], !.since = now]]
            /\ Goto(t, "pp_set")
            /\ UNCHANGED ret
  /\ UNCHANGED <<exceptProc, now, offers, heap, transactions, transaction_counter, initiated>>

\* lines 440-441: "Update status"
process_payment_begin(t) ==
  /\ pc[t] = "pp_set"
  /\ heap' = [heap EXCEPT ![loc[t].obj].status = "processing",
                          ![loc[t].obj].updated_at = now]
  /\ Goto(t, "pp_dispatch")
  /\ UNCHANGED <<exceptProc, now, offers, transactions, transaction_counter, initiated, loc, ret>>

\* process_payment without its except clause: a raise leaves the status.
StatusAfter_uncaught(outcome) ==
  IF outcome \in {"success", "direct"} THEN "completed"
  ELSE IF outcome = "raise" THEN "processing" ELSE "failed"

\* lines 447-465: the status each outcome of the try block leaves.
StatusAfter(outcome) ==
  IF outcome \in {"success", "direct"} THEN "completed" ELSE "failed"

\* line 449, transaction.sbp_details.update(sbp_response): the dict is
\* changed in place, so every transaction that holds this dict shows the
\* gateway's reference (the mutation changes a copy owned by obj alone).
sbp_details_update_own(h, obj, success) ==
  [h EXCEPT ![obj].sbp_details = IF success THEN "valid_ref" ELSE @]

sbp_details_update(h, obj, success) ==
  [i \in DOMAIN h |->
     IF success /\ h[i].sbp_obj = h[obj].sbp_obj
     THEN [h[i] EXCEPT !.sbp_details = "valid_ref"] ELSE h[i]]

\* lines 443-465: the try block, by payment method and gateway outcome.
process_payment_dispatch(t) ==
  /\ pc[t] = "pp_dispatch"
  /\ LET obj == loc[t].obj
         tx == heap[obj]
         outcome == IF tx.payment_method = "sbp" THEN initiate_payment(tx) ELSE "direct"
     IN  /\ heap' = [sbp_details_update(heap, obj, outcome = "success") EXCEPT
               ![obj].status = StatusAfter(outcome)]
         /\ initiated' = [initiated EXCEPT
               ![obj] = IF outcome = "success" THEN @ + 1 ELSE @]
         /\ loc' = [loc EXCEPT
               ![t].ok = outcome \in {"success", "direct"},
               ![t].msg = CASE outcome \in {"success", "direct"} ->
                                 "Payment processed successfully"
                            [] outcome = "failure" -> "Missing required field"
                            [] OTHER -> "Payment processing error"]
  /\ Goto(t, "pp_finally")
  /\ UNCHANGED <<exceptProc, now, offers, transactions, transaction_counter, ret>>

\* line 467: finally, then the return
process_payment_finally(t) ==
  /\ pc[t] = "pp_finally"
  /\ heap' = [heap EXCEPT ![loc[t].obj].updated_at = now]
  /\ Return(t, MkRet("process_payment", loc[t].ok, loc[t].msg, loc[t].arg_id))
  /\ UNCHANGED <<exceptProc, now, offers, transactions, transaction_counter, initiated>>

\* refund_transaction refunding a FAILED transaction too.
MayRefund_also_failed(status) == status \in {"completed", "failed"}

\* refund_transaction, lines 475-481: the transaction must exist and be
\* COMPLETED.
MayRefund(status) == status = "completed"

\* refund_transaction recording the time of the refund only.
RefundMetadata_no_reason(reason, t) == [refund_reason |-> Absent, refunded_at |-> t]

\* lines 486-487: what refund_transaction records in metadata.
RefundMetadata(reason, t) == [refund_reason |-> reason, refunded_at |-> t]

\* refund_transaction leaving updated_at as it finds it.
updated_at_refund_kept(tx, t) == tx.updated_at

\* line 485: updated_at as refund_transaction sets it, at time t.
updated_at_refund(tx, t) == t

refund_transaction_call(t) ==
  /\ pc[t] = "idle"
  /\ \E id \in TxnIds, reason \in Reasons :
       IF ~HasKey(transactions, id)
       THEN Return(t, transaction_not_found("refund_transaction", id))
       ELSE IF ~MayRefund(heap[transactions[id]].status)
       THEN Return(t, MkRet("refund_transaction", FALSE, "Cannot refund", id))
       ELSE /\ loc' = [loc EXCEPT ![t] =
                         [IdleLoc EXCEPT !.op = "refund_transaction", !.arg_id = id,
                                         !.reason = reason, !.obj = transactions[id],
                                         !.since = now]]
            /\ Goto(t, "rf_apply")
            /\ UNCHANGED ret
  /\ UNCHANGED <<exceptProc, now, offers, heap, transactions, transaction_counter, initiated>>

\* lines 484-490
refund_transaction_apply(t) ==
  /\ pc[t] = "rf_apply"
  /\ heap' = [heap EXCEPT
        ![loc[t].obj].status = "refunded",
        ![loc[t].obj].updated_at = updated_at_refund(heap[loc[t].obj], now),
        ![loc[t].obj].metadata = RefundMetadata(loc[t].reason, now)]
  /\ Return(t, MkRet("refund_transaction", TRUE, "Refund processed successfully",
                     loc[t].arg_id))
  /\ UNCHANGED <<exceptProc, now, offers, transactions, transaction_counter, initiated>>

\* refund_transaction statement by statement, as a concurrent caller meets
\* it.  Line 484 sets the status ...
refund_transaction_status(t) ==
  /\ pc[t] = "rf_apply"
  /\ heap' = [heap EXCEPT ![loc[t].obj].status = "refunded"]
  /\ Goto(t, "rf_stamp")
  /\ UNCHANGED <<exceptProc, now, offers, transactions, transaction_counter, initiated, loc, ret>>

\* ... line 485 updated_at ...
refund_transaction_stamp(t) ==
  /\ pc[t] = "rf_stamp"
  /\ heap' = [heap EXCEPT
        ![loc[t].obj].updated_at = updated_at_refund(heap[loc[t].obj], now)]
  /\ Goto(t, "rf_reason")
  /\ UNCHANGED <<exceptProc, now, offers, transactions, transaction_counter, initiated, loc, ret>>

\* ... line 486 the reason ...
refund_transaction_reason(t) ==
  /\ pc[t] = "rf_reason"
  /\ heap' = [heap EXCEPT ![loc[t].obj].metadata.refund_reason = loc[t].reason]
  /\ Goto(t, "rf_time")
  /\ UNCHANGED <<exceptProc, now, offers, transactions, transaction_counter, initiated, loc, ret>>

\* ... and line 487 the time of the refund; the call returns.
refund_transaction_time(t) ==
  /\ pc[t] = "rf_time"
  /\ heap' = [heap EXCEPT ![loc[t].obj].metadata.refunded_at = now]
  /\ Return(t, MkRet("refund_transaction", TRUE, "Refund processed successfully",
                     loc[t].arg_id))
  /\ UNCHANGED <<exceptProc, now, offers, transactions, transaction_counter, initiated>>

\* PaymentProcessor.get_transaction hands out the stored Transaction object
\* itself (None for an id not stored); the caller reads its status,
\* updated_at and metadata.
get_transaction(t) ==
  /\ pc[t] = "idle"
  /\ \E id \in TxnIds :
       IF ~HasKey(transactions, id)
       THEN ret' = [ret EXCEPT ![t] = MkRet("get_transaction", FALSE, "None", id)]
       ELSE LET tx == heap[transactions[id]]
            IN  ret' = [ret EXCEPT ![t] =
                          [MkRet("get_transaction", TRUE, "found", id) EXCEPT
                             !.seen = [status |-> tx.status, updated_at |-> tx.updated_at,
                                       metadata |-> tx.metadata]]]
  /\ UNCHANGED <<exceptProc, now, offers, heap, transactions, transaction_counter,
                 initiated, pc, loc>>

\* ---------------------------------------------------- PaymentHandler
\* handlers/payment_handlers.py; its calls run one after the other.

HandlerIds == {"t1", NoneId}
HandlerAmounts == {0, 10000}
Currencies == {<<"U", "S", "D">>, <<"R", "U">>}
RefundAmounts == {None, -5000, 0, 5000, 20000}

\* PaymentHandler.validate_payment_details (the customer id and the payment
\* method passed are well-formed).
validate_payment_details(amount, currency) ==
  IF amount <= 0 THEN FALSE
  ELSE IF currency = <<>> \/ Len(currency) # 3 THEN FALSE
  ELSE TRUE

\* process_payment, "Store transaction": the record it builds.
MkHandlerTxn(amount, t) ==
  [amount |-> amount, status |-> "processing", created_at |-> t,
   completed_at |-> None, error |-> FALSE, refund_amount |-> None,
   refunded_at |-> None, cancelled_at |-> None]

\* PaymentHandler._process_through_gateway: the simulated gateway succeeds;
\* building gateway_reference slices transaction_id, which raises TypeError
\* when the id is None.
process_through_gateway(id) == IF id = NoneId THEN "raise" ELSE "success"

HReturn(op, ok, id, status) ==
  h_ret' = [op |-> op, ok |-> ok, id |-> id, status |-> status, requested |-> None]

HReturnRefund(ok, id, status, refund_amount) ==
  h_ret' = [op |-> "refund_payment", ok |-> ok, id |-> id, status |-> status,
            requested |-> refund_amount]

\* process_payment, lines 111-137: validate, then store the transaction
\* under transaction_id.
h_process_payment_call ==
  /\ h_pc = "idle"
  /\ \E id \in HandlerIds, amount \in HandlerAmounts, currency \in Currencies :
       IF ~validate_payment_details(amount, currency)
       THEN /\ HReturn("process_payment", FALSE, id, "failed")
            /\ UNCHANGED <<h_transactions, h_pc, h_cur>>
       ELSE /\ h_transactions' = Put(h_transactions, id, MkHandlerTxn(amount, now))
            /\ h_pc' = "gateway"
            /\ h_cur' = id
            /\ UNCHANGED h_ret
  /\ UNCHANGED <<now, exceptHandler>>

\* process_payment, lines 139-163: the gateway call and its outcome.
h_process_payment_gateway ==
  /\ h_pc = "gateway"
  /\ LET outcome == process_through_gateway(h_cur)
     IN  /\ h_transactions' = [h_transactions EXCEPT
               ![h_cur].status = IF outcome = "success" THEN "completed" ELSE "failed",
               ![h_cur].completed_at = IF outcome = "raise" THEN @ ELSE now,
               ![h_cur].error = (outcome = "raise")]
         /\ HReturn("process_payment", outcome = "success", h_cur,
                    IF outcome = "success" THEN "completed" ELSE "failed")
  /\ h_pc' = "idle"
  /\ h_cur' = NoneId
  /\ UNCHANGED <<now, exceptHandler>>

\* refund_payment, lines 206-231: what may be refunded.
MayRefundPayment(status) == status = "completed"

\* PaymentHandler.refund_payment
h_refund_payment ==
  /\ h_pc = "idle"
  /\ \E id \in HandlerIds, refund_amount \in RefundAmounts :
       IF ~HasKey(h_transactions, id)
       THEN /\ HReturnRefund(FALSE, id, "not_found", refund_amount)
            /\ UNCHANGED h_transactions
       ELSE LET transaction == h_transactions[id]
                refund_amt == IF Truthy(refund_amount) THEN refund_amount
                              ELSE transaction.amount
            IN  IF ~MayRefundPayment(transaction.status)
                THEN /\ HReturnRefund(FALSE, id, transaction.status, refund_amount)
                     /\ UNCHANGED h_transactions
                ELSE IF refund_amt > transaction.amount
                THEN /\ HReturnRefund(FALSE, id, transaction.status, refund_amount)
                     /\ UNCHANGED h_transactions
                ELSE /\ h_transactions' = [h_transactions EXCEPT
                           ![id].status = "refunded",
                           ![id].refund_amount = refund_amt,
                           ![id].refunded_at = now]
                     /\ HReturnRefund(TRUE, id, "refunded", refund_amount)
  /\ UNCHANGED <<now, exceptHandler, h_pc, h_cur>>

\* PaymentHandler.cancel_payment
h_cancel_payment ==
  /\ h_pc = "idle"
  /\ \E id \in HandlerIds :
       IF ~HasKey(h_transactions, id)
       THEN /\ HReturn("cancel_payment", FALSE, id, "not_found")
            /\ UNCHANGED h_transactions
       ELSE IF h_transactions[id].status \notin {"pending", "processing"}
       THEN /\ HReturn("cancel_payment", FALSE, id, h_transactions[id].status)
            /\ UNCHANGED h_transactions
       ELSE /\ h_transactions' = [h_transactions EXCEPT
                  ![id].status = "cancelled", ![id].cancelled_at = now]
            /\ HReturn("cancel_payment", TRUE, id, "cancelled")
  /\ UNCHANGED <<now, exceptHandler, h_pc, h_cur>>

\* PaymentHandler.get_transaction_status
h_get_transaction_status ==
  /\ h_pc = "idle"
  /\ \E id \in HandlerIds :
       IF ~HasKey(h_transactions, id)
       THEN HReturn("get_transaction_status", FALSE, id, "not_found")
       ELSE HReturn("get_transaction_status", TRUE, id, h_transactions[id].status)
  /\ UNCHANGED <<now, exceptHandler, h_transactions, h_pc, h_cur>>

HandlerNext ==
  \/ Tick
  \/ h_get_transaction_status
  \/ h_process_payment_call
  \/ h_process_payment_gateway
  \/ h_refund_payment
  \/ h_cancel_payment

\* -------------------------------------------------- RobokassaHandler

MaxSent == 1
MaxHooks == 2

\* What a caller passes to create_payment_url.
PayAmounts ==
  { IntNumber(1000), FloatNumber(1000000), FloatNumber(1000010), FloatNumber(10999) }

ExtraChoices ==
  { NoExtra,
    [key \in {"PaymentMethod"} |-> << Txt("SBP") >>],
    [key \in {"PaymentMethod", "Phone"} |->
       IF key = "Phone" THEN << Txt("+79001234567") >> ELSE << Txt("SBP") >>] }

\* The order id of transaction n.
OrderId(n) == << Num(n) >>
OrderIds == { OrderId(1), OrderId(2) }

\* The values a webhook's fields take: what the gateway sends, what a third
\* party makes of it, or nothing.
SumText(whole, d1, d2) == << Num(whole), Point, Num(d1), Num(d2) >>

SumTexts ==
  { SumText(1000, 0, 0), << Num(1000), Point, Num(0) >>, SumText(1000, 0, 1),
    << Num(1000), Point, Num(0), Num(0), Num(4) >>, << Txt("abc") >> }

MerchantLogins == { MerchantId, << Txt("other") >> }
OperationIds == { << Txt("op1") >>, << Txt("op2") >> }
IsTests == { << Num(0) >>, << Num(1) >> }

SignedAmounts == { FloatNumber(1000000), FloatNumber(1000010), FloatNumber(0) }

SignatureValues ==
  { <<>>, NonAscii } \cup
  { generate_signature(MerchantId, amount, order_id, password, NoExtra) :
      amount \in SignedAmounts, order_id \in OrderIds \cup {NoneText},
      password \in {Password1, Password2} }

\* The webhook the gateway sends for an order id and a Sum: signed with
\* password2 over the merchant id, the amount and the order id.
GatewayWebhook(order_id, sum, operation_id, is_test) ==
  [InvId |-> order_id, Sum |-> sum, MerchantLogin |-> MerchantId,
   OperationId |-> operation_id, IsTest |-> is_test,
   SignatureValue |-> generate_signature(MerchantId, float_of(sum), order_id,
                                         Password2, NoExtra)]

GatewayWebhooks ==
  { GatewayWebhook(order_id, sum, << Txt("op1") >>, << Num(0) >>) :
      order_id \in OrderIds, sum \in {SumText(1000, 0, 0), SumText(1000, 0, 1)} }

FieldValues(field) ==
  {Missing} \cup
  CASE field = "InvId" -> OrderIds
    [] field = "Sum" -> SumTexts
    [] field = "MerchantLogin" -> MerchantLogins
    [] field = "OperationId" -> OperationIds
    [] field = "IsTest" -> IsTests
    [] OTHER -> SignatureValues

WebhookFields == DOMAIN NoWebhook

\* The webhooks handled: those of the gateway with up to two fields
\* changed or dropped.
CraftedWebhooks ==
  { [[g EXCEPT ![f1] = v1] EXCEPT ![f2] = v2] :
      << g, f1, f2, v1, v2 >> \in
        UNION { UNION { {g} \X {f1} \X {f2} \X FieldValues(f1) \X FieldValues(f2) :
                        f2 \in WebhookFields } : f1 \in WebhookFields, g \in GatewayWebhooks } }


\* A webhook made of what an outbound payment request shows.
ReplayOf(request) ==
  [InvId |-> request.InvId, Sum |-> request.Sum, MerchantLogin |-> request.MerchantLogin,
   OperationId |-> << Txt("op1") >>, IsTest |-> request.IsTest,
   SignatureValue |-> request.SignatureValue]

Replays == { ReplayOf(r_sent[i]) : i \in 1..Len(r_sent) }

\* create_payment_url is called and the request goes out.
create_payment_url_call ==
  /\ r_pc = "idle"
  /\ Len(r_sent) < MaxSent
  /\ Len(r_log) = 0 /\ r_verify = NoVerify
  /\ \E amount \in PayAmounts, order_id \in OrderIds, extra_params \in ExtraChoices :
       r_sent' = Append(r_sent, create_payment_url(r_config, amount, order_id, extra_params))
  /\ UNCHANGED <<now, procVars, handlerVars, calcVars, offerHandlerVars,
                 r_config, r_pc, r_webhook, r_valid, r_ret, r_verify, r_log>>

\* process_webhook making a verified webhook complete its transaction.
webhook_effect_complete(h, txns, result, t) ==
  IF result.success /\ Len(result.order_id) = 1 /\ HasKey(txns, result.order_id[1].n)
  THEN [h EXCEPT ![txns[result.order_id[1].n]].status = "completed",
                 ![txns[result.order_id[1].n]].updated_at = t]
  ELSE h

\* process_webhook, lines 210-270: the transactions after the call.  The
\* RobokassaHandler holds no reference to a PaymentProcessor and writes to
\* no transaction.
webhook_effect(h, txns, result, t) == h

\* A webhook arrives: validate_webhook_request and process_webhook are
\* called on it.
process_webhook_call(In) ==
  /\ r_pc = "idle"
  /\ Len(r_log) < In.max_hooks
  /\ r_verify = NoVerify
  /\ \E webhook_data \in In.webhooks \cup (IF In.replays THEN Replays ELSE {}) :
       LET result == process_webhook(r_config, webhook_data)
       IN  /\ r_webhook' = webhook_data
           /\ r_valid' = validate_webhook_request(webhook_data)
           /\ r_ret' = result
           /\ r_log' = Append(r_log, [at |-> now, result |-> result])
           /\ heap' = webhook_effect(heap, transactions, result, now)
  /\ UNCHANGED <<now, offers, transactions, transaction_counter, initiated, pc, loc, ret,
                 handlerVars, calcVars, offerHandlerVars, r_config, r_pc, r_sent, r_verify>>

\* _verify_signature is called on its own.
verify_signature_call ==
  /\ r_pc = "idle"
  /\ Len(r_log) = 0 /\ r_verify = NoVerify
  /\ \E merchant_id \in MerchantLogins, amount \in SignedAmounts, order_id \in OrderIds,
        provided_signature \in
          SignatureValues \cup { r_sent[i].SignatureValue : i \in 1..Len(r_sent) } :
       LET verified == verify_signature(r_config, merchant_id, amount, order_id,
                                        provided_signature)
       IN  r_verify' = [merchant_id |-> merchant_id, amount |-> amount,
                        order_id |-> order_id, provided_signature |-> provided_signature,
                        result |-> verified.result, log |-> verified.log]
  /\ UNCHANGED <<now, procVars, handlerVars, calcVars, offerHandlerVars,
                 r_config, r_pc, r_sent, r_webhook, r_valid, r_ret, r_log>>

\* ------------------------------------------------------ OfferHandler
\* payments/offer_handler.py; its calls run one after the other.

MaxHistory == 3

\* What callers pass: offer ids, amounts, discount percentages (150 is one
\* PaymentOffer.__post_init__ refuses), and the status update_offer is
\* given as a keyword.
OfferHandlerIds == {"o1", "o2"}
OfferAmounts == {10000, 20000}
OfferPercentages == {None, 10, 150}
OfferStatuses ==
  {"draft", "active", "pending_approval", "approved", "expired", "cancelled",
   "accepted"}
CancelReasons == {"", "r"}

\* PaymentOffer as create_offer builds it, lines 224-239 (one customer and
\* one currency; no terms, discount_amount or valid_days are given).
MkPaymentOffer(offer_id, amount, discount_percentage, t) ==
  [offer_id |-> offer_id, customer_id |-> "c1", amount |-> amount,
   status |-> "draft", discount_percentage |-> discount_percentage,
   created_at |-> t, valid_from |-> None, valid_until |-> None, notes |-> ""]

\* PaymentOffer.__post_init__: whether it raises ValueError.
post_init_raises(o) ==
  Truthy(o.discount_percentage)
    /\ ~(0 <= o.discount_percentage /\ o.discount_percentage <= 100)

\* _log_offer_event
log_offer_event(history, offer, event_type, t) ==
  Append(history,
         [offer_id |-> offer.offer_id, customer_id |-> offer.customer_id,
          event_type |-> event_type, status |-> offer.status, timestamp |-> t,
          amount |-> offer.amount])

OfferReturn(op, raised, offer_id) ==
  oh_ret' = [op |-> op, raised |-> raised, offer_id |-> offer_id]

\* A call that raises ValueError before it changed anything.
OfferRaise(op, offer_id) ==
  /\ OfferReturn(op, TRUE, offer_id)
  /\ UNCHANGED <<oh_offers, oh_history>>

\* create_offer, line 216 (the mutation answers "no" always)
OfferIdTaken_never(d, offer_id) == FALSE

OfferIdTaken(d, offer_id) == offer_id \in DOMAIN d

\* OfferHandler.create_offer
create_offer ==
  /\ Len(oh_history) < MaxHistory
  /\ \E offer_id \in OfferHandlerIds, amount \in OfferAmounts,
        discount_percentage \in OfferPercentages :
       LET offer == MkPaymentOffer(offer_id, amount, discount_percentage, now)
       IN  IF OfferIdTaken(oh_offers, offer_id) \/ post_init_raises(offer)
           THEN OfferRaise("create_offer", offer_id)
           ELSE /\ oh_offers' = Put(oh_offers, offer_id, offer)
                /\ oh_history' = log_offer_event(oh_history, offer, "created", now)
                /\ OfferReturn("create_offer", FALSE, offer_id)
  /\ UNCHANGED <<now, procVars, handlerVars, calcVars, roboVars>>

\* The body the status methods share: look the offer up (ValueError when
\* it is not there), change it, log the event.
change_status(op, offer_id, changed, event_type) ==
  IF offer_id \notin DOMAIN oh_offers
  THEN OfferRaise(op, offer_id)
  ELSE /\ oh_offers' = [oh_offers EXCEPT ![offer_id] = changed]
       /\ oh_history' = log_offer_event(oh_history, changed, event_type, now)
       /\ OfferReturn(op, FALSE, offer_id)

\* OfferHandler.update_offer, called with status = <a status>
update_offer ==
  /\ Len(oh_history) < MaxHistory
  /\ \E offer_id \in OfferHandlerIds, status \in OfferStatuses :
       change_status("update_offer", offer_id,
                     [oh_offers[offer_id] EXCEPT !.status = status], "updated")
  /\ UNCHANGED <<now, procVars, handlerVars, calcVars, roboVars>>

\* OfferHandler.approve_offer
approve_offer ==
  /\ Len(oh_history) < MaxHistory
  /\ \E offer_id \in OfferHandlerIds :
       change_status("approve_offer", offer_id,
                     [oh_offers[offer_id] EXCEPT !.status = "approved"], "approved")
  /\ UNCHANGED <<now, procVars, handlerVars, calcVars, roboVars>>

\* OfferHandler.activate_offer
activate_offer ==
  /\ Len(oh_history) < MaxHistory
  /\ \E offer_id \in OfferHandlerIds :
       change_status("activate_offer", offer_id,
                     [oh_offers[offer_id] EXCEPT
                        !.status = "active",
                        !.valid_from = IF @ = None THEN now ELSE @],
                     "activated")
  /\ UNCHANGED <<now, procVars, handlerVars, calcVars, roboVars>>

\* OfferHandler.accept_offer
accept_offer ==
  /\ Len(oh_history) < MaxHistory
  /\ \E offer_id \in OfferHandlerIds :
       change_status("accept_offer", offer_id,
                     [oh_offers[offer_id] EXCEPT !.status = "accepted"], "accepted")
  /\ UNCHANGED <<now, procVars, handlerVars, calcVars, roboVars>>

\* OfferHandler.cancel_offer
cancel_offer ==
  /\ Len(oh_history) < MaxHistory
  /\ \E offer_id \in OfferHandlerIds, reason \in CancelReasons :
       change_status("cancel_offer", offer_id,
                     [oh_offers[offer_id] EXCEPT
                        !.status = "cancelled",
                        !.notes = IF reason # "" THEN "Cancelled: r" ELSE @],
                     "cancelled")
  /\ UNCHANGED <<now, procVars, handlerVars, calcVars, roboVars>>

\* ------------------------------------------------------ specifications

\* The steps of create_transaction around its call of apply_offers.
CreateSteps(t, In) ==
  \/ create_transaction_call(t, In)
  \/ create_transaction_counter(t)
  \/ create_transaction_id(t)
  \/ create_transaction_store(t)

\* The loop of apply_offers.
ApplySteps(t) ==
  \/ apply_offers_check(t)
  \/ apply_offers_read(t)
  \/ apply_offers_increment(t)

\* The steps of process_payment and refund_transaction.
TransitionSteps(t) ==
  \/ process_payment_call(t)
  \/ process_payment_begin(t)
  \/ process_payment_dispatch(t)
  \/ process_payment_finally(t)
  \/ refund_transaction_call(t)
  \/ refund_transaction_apply(t)

\* The calls on the offer catalog.
CatalogCalls(t, In) ==
  \/ add_offer(t)
  \/ apply_offers_call(t, In)
  \/ apply_offers_return(t)
  \/ display_offers(t, In)

\* The inputs of a run about the transaction lifecycle: every payment kind,
\* offers selected by the catalog or named singly.
LifecycleInputs ==
  [amounts |-> {100000}, offer_ids |-> {<<>>, <<"offer_001">>}, kinds |-> PaymentKinds,
   max_txn |-> MaxTxn, dicts |-> {"fresh"}]

\* The inputs of a run about offers: every amount and list of offer ids.
OfferInputs ==
  [amounts |-> Amounts, offer_ids |-> OfferIdLists, kinds |-> {<<"card", "empty">>},
   max_txn |-> MaxTxnRich, dicts |-> {"fresh"}]

\* The inputs of a run of concurrent callers.
ConcInputs ==
  [amounts |-> {100000}, offer_ids |-> {<<"offer_001">>, <<"offer_lim">>}, kinds |-> {<<"sbp", "valid">>},
   max_txn |-> MaxTxnRich, dicts |-> {"fresh"}]

\* The inputs of a run about stacking: amounts that an earlier offer takes
\* below the min_amount of a later one, offers selected by the catalog or
\* named in either order.
StackInputs ==
  [amounts |-> {1500, 5200, 100000},
   offer_ids |-> {<<>>, <<"offer_lim", "offer_001">>, <<"offer_001", "offer_lim">>},
   kinds |-> {<<"card", "empty">>}, max_txn |-> MaxTxnRich, dicts |-> {"fresh"}]

\* The inputs of a run about what a transition leaves alone: two
\* transactions, SBP and card, the second possibly given the sbp_details
\* dict of the first.
FrameInputs ==
  [amounts |-> {100000}, offer_ids |-> {<<"offer_001">>},
   kinds |-> {<<"card", "empty">>, <<"sbp", "valid">>}, max_txn |-> MaxTxn,
   dicts |-> {"fresh", "same"}]

\* The inputs of a run in which offers change between creations.
SnapshotInputs ==
  [amounts |-> {100000}, offer_ids |-> {<<>>, <<"offer_001">>},
   kinds |-> {<<"card", "empty">>}, max_txn |-> MaxTxn, dicts |-> {"fresh"}]

\* The inputs of a run of concurrent create_transaction calls.
CreateConcInputs ==
  [amounts |-> {100000}, offer_ids |-> {<<"offer_001">>},
   kinds |-> {<<"card", "empty">>, <<"sbp", "valid">>}, max_txn |-> MaxTxn, dicts |-> {"fresh"}]

\* The inputs of a run in which a creation fails: the offers named include
\* the one with the float cashback.
AtomicInputs ==
  [amounts |-> {100000},
   offer_ids |-> {<<"offer_001">>, <<"offer_float">>, <<"offer_001", "offer_float">>},
   kinds |-> {<<"card", "empty">>, <<"sbp", "valid">>}, max_txn |-> MaxTxn, dicts |-> {"fresh"}]

\* The inputs of a run of writers and readers of one transaction.
ReaderInputs ==
  [amounts |-> {100000}, offer_ids |-> {<<"offer_001">>},
   kinds |-> {<<"card", "empty">>}, max_txn |-> MaxTxnRich, dicts |-> {"fresh"}]

\* One caller (the calls run one after the other) on the transaction
\* lifecycle, on the offer catalog, and on transactions with stacked offers.
ProcNext == Tick \/ CreateSteps(1, LifecycleInputs) \/ ApplySteps(1) \/ TransitionSteps(1)

OfferNext == Tick \/ CatalogCalls(1, OfferInputs) \/ CreateSteps(1, OfferInputs) \/ ApplySteps(1)

DiscountNext ==
  Tick \/ add_offer(1) \/ CreateSteps(1, OfferInputs) \/ ApplySteps(1) \/ TransitionSteps(1)

StackNext == Tick \/ CatalogCalls(1, StackInputs) \/ CreateSteps(1, StackInputs) \/ ApplySteps(1)

FrameNext == Tick \/ CreateSteps(1, FrameInputs) \/ ApplySteps(1) \/ TransitionSteps(1)

SnapshotNext == Tick \/ change_offer(1) \/ CreateSteps(1, SnapshotInputs) \/ ApplySteps(1)

AtomicNext ==
  Tick \/ add_offer_from(1, FloatOffers) \/ CreateSteps(1, AtomicInputs) \/ ApplySteps(1)

\* Several callers: the steps of their calls interleave.
ProcNextConc ==
  Tick \/ \E t \in Threads : CreateSteps(t, ConcInputs) \/ ApplySteps(t) \/ TransitionSteps(t)

OfferNextConc ==
  Tick \/ \E t \in Threads : CatalogCalls(t, ConcInputs) \/ ApplySteps(t)

CreateNextConc ==
  Tick \/ \E t \in Threads : CreateSteps(t, CreateConcInputs) \/ ApplySteps(t)

\* Concurrent callers creating, paying, refunding (statement by statement)
\* and reading transactions.
ReaderNextConc ==
  \/ Tick
  \/ \E t \in Threads :
       \/ CreateSteps(t, ReaderInputs)
       \/ ApplySteps(t)
       \/ process_payment_call(t)
       \/ process_payment_begin(t)
       \/ process_payment_dispatch(t)
       \/ process_payment_finally(t)
       \/ refund_transaction_call(t)
       \/ refund_transaction_status(t)
       \/ refund_transaction_stamp(t)
       \/ refund_transaction_reason(t)
       \/ refund_transaction_time(t)
       \/ get_transaction(t)

\* One caller on the transaction lifecycle, refund_transaction taken
\* statement by statement: time may pass between two statements.
StampNext ==
  \/ Tick
  \/ CreateSteps(1, LifecycleInputs)
  \/ ApplySteps(1)
  \/ process_payment_call(1)
  \/ process_payment_begin(1)
  \/ process_payment_dispatch(1)
  \/ process_payment_finally(1)
  \/ refund_transaction_call(1)
  \/ refund_transaction_status(1)
  \/ refund_transaction_stamp(1)
  \/ refund_transaction_reason(1)
  \/ refund_transaction_time(1)

SpecProc == ProcInit /\ [][ProcNext]_vars
SpecOffers == ProcInit /\ [][OfferNext]_vars
SpecDiscount == ProcInit /\ [][DiscountNext]_vars
SpecStack == ProcInit /\ [][StackNext]_vars
SpecSnapshot == ProcInit /\ [][SnapshotNext]_vars
SpecAtomic == ProcInit /\ [][AtomicNext]_vars
SpecProcConc == ProcInit /\ [][ProcNextConc]_vars
SpecOffersConc == ProcInit /\ [][OfferNextConc]_vars
SpecCreateConc == ProcInit /\ [][CreateNextConc]_vars
SpecReaders == ProcInit /\ [][ReaderNextConc]_vars
SpecStamps == ProcInit /\ [][StampNext]_vars
SpecFrame == ProcInit /\ [][FrameNext]_vars

\* The two registries: offers are registered with the OfferManager and
\* created in the OfferHandler (where they may then be cancelled).
RegisterNext ==
  \/ Tick
  \/ add_offer_from(1, RegisterOffers)
  \/ create_offer
  \/ cancel_offer

SpecRegister == ProcInit /\ [][RegisterNext]_vars

\* The OfferHandler alone.
OfferHandlerNext ==
  \/ Tick
  \/ create_offer
  \/ update_offer
  \/ approve_offer
  \/ activate_offer
  \/ accept_offer
  \/ cancel_offer

SpecOfferHandler == ProcInit /\ [][OfferHandlerNext]_vars

\* The PaymentHandler alone, and either of the two.
SpecHandler == HandlerInit /\ [][HandlerNext]_vars
Spec == (ProcInit \/ HandlerInit) /\ [][ProcNext \/ HandlerNext]_vars

\* The same, where a call that has begun runs on to its return: the steps
\* inside process_payment are taken when they are due.
SpecLive ==
  /\ Spec
  /\ WF_vars(process_payment_begin(1))
  /\ WF_vars(process_payment_dispatch(1))
  /\ WF_vars(process_payment_finally(1))
  /\ WF_vars(h_process_payment_gateway)

\* The PaymentHandler with callers that keep calling: a call that can be
\* made (with a new outcome) is made in the end, the gateway step of a
\* process_payment under way is taken, and a cancel_payment that could
\* succeed again and again does succeed once.
cancel_payment_succeeds == h_cancel_payment /\ h_ret'.ok

SpecHandlerLive ==
  /\ SpecHandler
  /\ WF_vars(h_process_payment_call)
  /\ WF_vars(h_process_payment_gateway)
  /\ WF_vars(h_refund_payment)
  /\ WF_vars(h_cancel_payment)
  /\ SF_vars(cancel_payment_succeeds)

\* The RobokassaHandler alone: payment requests go out, then one webhook
\* (any of CraftedWebhooks, or a replay of a request) or one signature is
\* verified.
RoboInit == Constructed("off", "off") /\ NoCalc /\ RoboConstructed("idle")

RoboInputs == [webhooks |-> CraftedWebhooks, replays |-> TRUE, max_hooks |-> 1]

RoboNext ==
  create_payment_url_call \/ process_webhook_call(RoboInputs) \/ verify_signature_call

SpecRobo == RoboInit /\ [][RoboNext]_vars

\* A PaymentProcessor and a RobokassaHandler side by side: SBP transactions
\* are created, processed and refunded while webhooks for their order ids
\* arrive, from the gateway or with the Sum changed after signing.
GatewayInit == Constructed("idle", "off") /\ NoCalc /\ RoboConstructed("idle")

GatewayInputs ==
  [amounts |-> {100000}, offer_ids |-> {<<>>},
   kinds |-> { <<"sbp", "valid">>, <<"sbp", "empty">> }, max_txn |-> MaxTxnRich, dicts |-> {"fresh"}]

TamperedSum(g) ==
  { [g EXCEPT !.Sum = sum] : sum \in {s \in SumTexts : IsNumberText(s)} }

GatewayHooks ==
  [webhooks |-> UNION { TamperedSum(g) :
                        g \in {w \in GatewayWebhooks : w.Sum = SumText(1000, 0, 0)} },
   replays |-> FALSE, max_hooks |-> MaxHooks]

GatewayNext ==
  \/ Tick
  \/ CreateSteps(1, GatewayInputs)
  \/ ApplySteps(1)
  \/ TransitionSteps(1)
  \/ process_webhook_call(GatewayHooks)

SpecGateway == GatewayInit /\ [][GatewayNext]_vars

\* calculate_discount on drawn offers and amounts.
SpecCalc == CalcInit /\ [][calculate]_vars

\* ------------------------------------------------------------- claims

\* The edges of the transaction state machine.
LegalEdges ==
  { <<"pending", "processing">>, <<"processing", "completed">>,
    <<"processing", "failed">>, <<"completed", "refunded">>,
    <<"pending", "cancelled">>, <<"processing", "cancelled">> }

\* C1: in PaymentProcessor, over any sequence of create_transaction,
\* process_payment and refund_transaction calls, every change of the status
\* stored under a transaction id follows a legal edge.
C1_ProcessorStatusFollowsLegalEdges ==
  [][\A id \in DOMAIN transactions :
       LET before == heap[transactions[id]].status
           after == heap'[transactions'[id]].status
       IN  before # after => <<before, after>> \in LegalEdges]_vars

\* C1 witness: one transaction went PENDING, PROCESSING, COMPLETED, REFUNDED
\* and another PENDING, PROCESSING, FAILED.
C1_Witness ==
  \E i, j \in 1..Len(heap) : heap[i].status = "refunded" /\ heap[j].status = "failed"

\* C2: in PaymentHandler, over any sequence of process_payment,
\* refund_payment and cancel_payment calls, every change of the status stored
\* under a transaction id follows a legal edge (so FAILED, CANCELLED and
\* REFUNDED are final and COMPLETED only moves to REFUNDED).
C2_HandlerStatusFollowsLegalEdges ==
  [][\A id \in DOMAIN h_transactions :
       LET before == h_transactions[id].status
           after == h_transactions'[id].status
       IN  before # after => <<before, after>> \in LegalEdges]_vars

\* C3: of the process_payment calls (and of the refund_transaction calls) on
\* one transaction id that run concurrently, at most one returns success,
\* and the payment of a transaction is initiated at most once.
C3_TransitionsMutuallyExclusive ==
  /\ \A i \in 1..Len(heap) : initiated[i] <= 1
  /\ \A t, u \in Threads :
       ( /\ t # u
         /\ ret[t].op \in {"process_payment", "refund_transaction"}
         /\ ret[u].op = ret[t].op
         /\ ret[u].id = ret[t].id
         /\ ret[t].ok ) => ~ret[u].ok

\* The callers inside apply_offers that hold a grant of offer id.
Granted(id) ==
  {t \in Threads : \E k \in 1..Len(loc[t].applied_offers) :
                      loc[t].applied_offers[k].offer = id}

\* C4: with concurrent apply_offers calls on an offer whose usage_limit is
\* N >= 1, current_usage never exceeds N and no more than N of the calls are
\* granted the offer.
C4_ConcurrentUsageWithinLimit ==
  \A i \in 1..Len(offers) :
    offers[i].usage_limit # None /\ offers[i].usage_limit >= 1 =>
      /\ offers[i].current_usage <= offers[i].usage_limit
      /\ Cardinality(Granted(offers[i].id)) <= offers[i].usage_limit

\* C5: after any sequence of apply_offers, create_transaction and
\* display_offers calls run one after the other, every offer with a usage
\* limit set (0 included) has 0 <= current_usage <= usage_limit.
C5_UsageWithinLimit ==
  \A i \in 1..Len(offers) :
    offers[i].usage_limit # None =>
      /\ 0 <= offers[i].current_usage
      /\ offers[i].current_usage <= offers[i].usage_limit

\* The amounts of a stored transaction are consistent.
AmountsConsistent(tx) ==
  /\ tx.final_amount = tx.amount - tx.total_discount
  /\ 0 <= tx.total_discount
  /\ tx.total_discount <= tx.amount
  /\ tx.final_amount >= 0

\* C6: every transaction create_transaction stores (amount >= 0, offers
\* with percentage in [0,100], cap >= 0, cashback >= 0, stacked in any
\* number and order) has final_amount = amount - total_discount,
\* 0 <= total_discount <= amount and final_amount >= 0, and process_payment
\* and refund_transaction never change these three fields.
C6_AmountsConsistentAndFrozen ==
  /\ [](\A i \in 1..Len(heap) : AmountsConsistent(heap[i]))
  /\ [][\A i \in 1..Len(heap) :
          /\ heap'[i].amount = heap[i].amount
          /\ heap'[i].total_discount = heap[i].total_discount
          /\ heap'[i].final_amount = heap[i].final_amount]_vars

\* C6 witness: a transaction with two stacked offers was paid and refunded.
C6_Witness ==
  \E i \in 1..Len(heap) :
    /\ Len(heap[i].applied_offers) >= 2
    /\ heap[i].total_discount > 0
    /\ heap[i].status = "refunded"

\* C7: for amount A >= 0, percentage P in [0,100] and a cap C >= 0 set on a
\* percentage-discount offer, calculate_discount returns d with d <= A,
\* d <= C and A - d >= 0.
C7_DiscountWithinAmountAndCap ==
  ( /\ calc_result # None
    /\ calc_offer.type = "discount"
    /\ calc_offer.discount_percentage # None
    /\ calc_offer.discount_percentage >= 0
    /\ calc_offer.discount_percentage <= 100
    /\ calc_offer.max_discount # None
    /\ calc_offer.max_discount >= 0
    /\ calc_amount >= 0 )
  => /\ calc_result <= calc_amount
     /\ calc_result <= calc_offer.max_discount
     /\ calc_amount - calc_result >= 0

\* refund_transaction in a step: it goes on to the refund only from
\* COMPLETED; the refund sets REFUNDED, the reason and the time of the
\* refund in metadata, and updated_at; a call that fails changes no
\* transaction.
RefundTransactionStep(t) ==
  /\ (pc[t] = "idle" /\ pc'[t] = "rf_apply") =>
        heap[loc'[t].obj].status = "completed"
  /\ (pc[t] = "rf_apply" /\ pc'[t] = "idle") =>
        /\ ret'[t].op = "refund_transaction" /\ ret'[t].ok
        /\ heap[loc[t].obj].status = "completed"
        /\ heap'[loc[t].obj].status = "refunded"
        /\ heap'[loc[t].obj].updated_at = now
        /\ heap'[loc[t].obj].metadata.refund_reason = loc[t].reason
        /\ heap'[loc[t].obj].metadata.refunded_at = now
  /\ (pc[t] = "idle" /\ pc'[t] = "idle" /\ ret'[t] # ret[t]
        /\ ret'[t].op = "refund_transaction") =>
        /\ ~ret'[t].ok
        /\ heap' = heap
        /\ (HasKey(transactions, ret'[t].id) =>
              heap[transactions[ret'[t].id]].status # "completed")

\* refund_payment in a step: it succeeds only from COMPLETED, then sets
\* REFUNDED and records the reason and the time of the refund on the record;
\* a call that fails changes no transaction.
RefundPaymentStep ==
  (h_ret' # h_ret /\ h_ret'.op = "refund_payment") =>
    IF h_ret'.ok
    THEN /\ h_transactions[h_ret'.id].status = "completed"
         /\ h_transactions'[h_ret'.id].status = "refunded"
         /\ h_transactions'[h_ret'.id].refunded_at = now
         /\ "refund_reason" \in DOMAIN h_transactions'[h_ret'.id]
    ELSE h_transactions' = h_transactions

\* C8: in PaymentProcessor and in PaymentHandler, a refund succeeds only on
\* a COMPLETED transaction, then sets REFUNDED and records the reason and
\* the time of the refund; on any other status it fails and changes nothing.
C8_RefundRecordsReason ==
  [][ /\ \A t \in Threads : RefundTransactionStep(t)
      /\ RefundPaymentStep ]_vars

\* C9: PaymentProcessor.process_payment goes on to PROCESSING only from
\* PENDING; a call on a transaction in any other status returns failure,
\* initiates no gateway payment and leaves every transaction record as it
\* was.
C9_ProcessOnlyFromPending ==
  [][\A t \in Threads :
       /\ (pc[t] = "idle" /\ pc'[t] = "pp_set") =>
             heap[loc'[t].obj].status = "pending"
       /\ (pc[t] = "idle" /\ pc'[t] = "idle" /\ ret'[t] # ret[t]
             /\ ret'[t].op = "process_payment") =>
             /\ ~ret'[t].ok
             /\ heap' = heap
             /\ initiated' = initiated
             /\ (HasKey(transactions, ret'[t].id) =>
                   heap[transactions[ret'[t].id]].status # "pending")]_vars

\* C9 witness: process_payment on a COMPLETED transaction has failed.
C9_Witness ==
  \E t \in Threads :
    /\ pc[t] = "idle"
    /\ ret[t].op = "process_payment" /\ ~ret[t].ok
    /\ HasKey(transactions, ret[t].id)
    /\ heap[transactions[ret[t].id]].status = "completed"

\* A transaction is PROCESSING only while the process_payment call that
\* moved it there is running, and the call returns with it COMPLETED (on
\* success) or FAILED (initiation returned failure or raised).
SettledOnReturn ==
  /\ \A i \in 1..Len(heap) :
       heap[i].status = "processing" =>
         \E t \in Threads : pc[t] = "pp_dispatch" /\ loc[t].obj = i
  /\ \A t \in Threads :
       /\ pc[t] = "pp_finally" =>
            heap[loc[t].obj].status = (IF loc[t].ok THEN "completed" ELSE "failed")
       /\ (pc[t] = "idle" /\ ret[t].op = "process_payment"
             /\ ret[t].msg \notin {"Transaction not found", "Transaction is not pending"}) =>
            heap[transactions[ret[t].id]].status =
              (IF ret[t].ok THEN "completed" ELSE "failed")
  /\ \A id \in DOMAIN h_transactions :
       h_transactions[id].status = "processing" => (h_pc = "gateway" /\ h_cur = id)
  /\ (h_pc = "idle" /\ h_ret.op = "process_payment" /\ h_ret.ok) =>
       h_transactions[h_ret.id].status = "completed"
  /\ (h_pc = "idle" /\ h_ret.op = "process_payment" /\ HasKey(h_transactions, h_ret.id)
        /\ h_transactions[h_ret.id].error) =>
       (~h_ret.ok /\ h_transactions[h_ret.id].status = "failed")

\* C10: every process_payment call that moves a transaction to PROCESSING
\* eventually leaves it COMPLETED or FAILED, whether initiation succeeds,
\* returns failure or raises; once the call has returned the transaction is
\* not PROCESSING, and an initiation failure leaves it FAILED.  In
\* PaymentProcessor and in PaymentHandler.
C10_NeverLeftProcessing ==
  /\ []SettledOnReturn
  /\ \A i \in 1..MaxTxn :
       (i <= Len(heap) /\ heap[i].status = "processing")
         ~> (i <= Len(heap) /\ heap[i].status \in {"completed", "failed"})
  /\ \A id \in HandlerIds :
       (HasKey(h_transactions, id) /\ h_transactions[id].status = "processing")
         ~> (HasKey(h_transactions, id)
               /\ h_transactions[id].status \in {"completed", "failed"})

\* C10 witness: an initiation that raised has left the transaction FAILED.
C10_Witness ==
  \E t \in Threads :
    /\ pc[t] = "idle"
    /\ ret[t].op = "process_payment" /\ ~ret[t].ok
    /\ ret[t].msg = "Payment processing error"
    /\ heap[transactions[ret[t].id]].status = "failed"

\* ------------------------------------------------ claims on webhooks

\* A step in which a webhook is handled.
WebhookStep == Len(r_log') = Len(r_log) + 1

\* The place in heap of the transaction an order id names (0: none).
TxnOfOrder(order_id) ==
  IF Len(order_id) = 1 /\ order_id[1].k = "num" /\ HasKey(transactions, order_id[1].n)
  THEN transactions[order_id[1].n] ELSE 0

\* The webhook's signature is that of its own order id and amount under one
\* of the two passwords, and its MerchantLogin is the configured one.
Authenticated(w) ==
  /\ \A field \in WebhookFields : w[field] # Missing
  /\ IsNumberText(w.Sum)
  /\ w.MerchantLogin = r_config.merchant_id
  /\ \E password \in {r_config.password1, r_config.password2} :
       w.SignatureValue = generate_signature(r_config.merchant_id, float_of(w.Sum),
                                             w.InvId, password, NoExtra)

\* C11: a transaction whose SBP payment process_payment has initiated stays
\* PROCESSING; it becomes COMPLETED only in the handling of an authenticated
\* webhook for its order id.
C11_CompletedOnlyByWebhook ==
  [][\A i \in 1..Len(heap) :
       ( /\ heap[i].payment_method = "sbp"
         /\ heap[i].status # "completed"
         /\ heap'[i].status = "completed" )
       => /\ WebhookStep
          /\ r_ret'.success
          /\ r_ret'.order_id = OrderId(heap[i].id)]_vars

\* w is a webhook of the gateway with one field changed (or dropped) after
\* signing; a changed Sum is another amount, or no amount.
OneFieldChanged(w) ==
  \E g \in GatewayWebhooks, field \in WebhookFields :
    /\ w # g
    /\ w = [g EXCEPT ![field] = w[field]]
    /\ (field = "Sum" /\ IsNumberText(w.Sum)) => float_of(w.Sum) # float_of(g.Sum)

\* C12: a webhook signed with the inbound secret is accepted, and a webhook
\* in which any single field (InvId, Sum, MerchantLogin, OperationId, IsTest
\* or SignatureValue) was changed after signing is not accepted.
C12_AnyFieldChangeRejected ==
  Len(r_log) = 1 =>
    /\ r_webhook \in GatewayWebhooks => r_ret.success
    /\ OneFieldChanged(r_webhook) => ~r_ret.success

\* C13: a webhook made of what an outbound payment request shows (its order
\* id, Sum and SignatureValue) is not accepted.
C13_OutboundSignatureNotReplayable ==
  (Len(r_log) = 1 /\ r_webhook \in Replays) => ~r_ret.success

\* C14: _verify_signature returns true exactly when the provided signature
\* is that of the same fields under password2 or under password1, reporting
\* password2 when it matches and password1 when only it matches, and
\* returns false, reporting the mismatch, when neither matches.
C14_VerifyTriesBothSecrets ==
  r_verify.result # "none" =>
    LET inbound == generate_signature(r_verify.merchant_id, r_verify.amount,
                                      r_verify.order_id, r_config.password2, NoExtra)
        outbound == generate_signature(r_verify.merchant_id, r_verify.amount,
                                       r_verify.order_id, r_config.password1, NoExtra)
        provided == r_verify.provided_signature
    IN  /\ provided = inbound =>
             r_verify.result = "true" /\ r_verify.log = "verified"
        /\ (provided # inbound /\ provided = outbound) =>
             r_verify.result = "true" /\ r_verify.log = "verified with password1"
        /\ (provided # inbound /\ provided # outbound) =>
             r_verify.result = "false" /\ r_verify.log = "failed"

\* Nothing the PaymentProcessor stores changes in the step.
StoreUnchanged ==
  UNCHANGED <<offers, heap, transactions, transaction_counter, initiated>>

\* C15: handling an authenticated webhook for an order id whose transaction
\* is COMPLETED or REFUNDED returns success and changes neither the status
\* nor updated_at of the transaction nor anything else stored, however many
\* times it is handled.
C15_WebhookReplayIsNoOp ==
  [][( /\ WebhookStep
       /\ Authenticated(r_webhook')
       /\ TxnOfOrder(r_webhook'.InvId) # 0
       /\ heap[TxnOfOrder(r_webhook'.InvId)].status \in {"completed", "refunded"} )
     => /\ r_ret'.success /\ ~r_ret'.raised
        /\ StoreUnchanged]_vars

\* C15 witness: two authenticated webhooks for the order id of transaction
\* 1 were handled after it was COMPLETED, both with success, and its
\* updated_at is that of the completion.
C15_Witness ==
  /\ Len(r_log) = 2
  /\ HasKey(transactions, 1)
  /\ \A k \in 1..2 : /\ r_log[k].result.success
                     /\ r_log[k].result.order_id = OrderId(1)
                     /\ r_log[k].at > heap[transactions[1]].updated_at
  /\ heap[transactions[1]].status = "completed"

\* w is a webhook of the gateway whose Sum was changed to another amount
\* after signing.
SumChanged(w) ==
  /\ IsNumberText(w.Sum)
  /\ \E g \in GatewayWebhooks :
       /\ float_of(w.Sum) # float_of(g.Sum)
       /\ w = [g EXCEPT !.Sum = w.Sum]

\* C16: a webhook whose Sum is another amount than the one signed (1000.01
\* for 1000.00) is rejected with a signature failure, and no transaction
\* changes: one that is PROCESSING stays PROCESSING.
C16_TamperedSumRejected ==
  [][(WebhookStep /\ SumChanged(r_webhook'))
     => /\ ~r_ret'.success /\ ~r_ret'.raised
        /\ r_ret'.message = "Signature verification failed"
        /\ StoreUnchanged]_vars

\* C16 witness: while transaction 1 is PROCESSING, the webhook for its order
\* id with Sum 1000.01 in place of the signed 1000.00 was rejected.
C16_Witness ==
  /\ Len(r_log) >= 1
  /\ r_webhook = [GatewayWebhook(OrderId(1), SumText(1000, 0, 0), << Txt("op1") >>, << Num(0) >>)
                    EXCEPT !.Sum = SumText(1000, 0, 1)]
  /\ r_ret.message = "Signature verification failed"
  /\ HasKey(transactions, 1)
  /\ heap[transactions[1]].status = "processing"

\* C17: handling an authenticated webhook whose order id names no stored
\* transaction returns a failure and creates no transaction.
C17_UnknownOrderFails ==
  [][( /\ WebhookStep
       /\ Authenticated(r_webhook')
       /\ TxnOfOrder(r_webhook'.InvId) = 0 )
     => /\ ~r_ret'.success
        /\ StoreUnchanged]_vars

\* C18: process_webhook succeeds only if the signature verifies and the
\* MerchantLogin is the configured merchant id; a signature that does not
\* verify yields the signature failure, whatever the MerchantLogin; a
\* differing MerchantLogin then yields the merchant failure; a success
\* carries the webhook's order id, amount, operation id and test flag.
C18_AuthenticationOrder ==
  LET w == r_webhook
      sum == Get(w, "Sum", << Num(0) >>)
      order_id == Get(w, "InvId", NoneText)
      provided == Get(w, "SignatureValue", <<>>)
      verifies == \E password \in {r_config.password1, r_config.password2} :
                    provided = generate_signature(r_config.merchant_id, float_of(sum),
                                                  order_id, password, NoExtra)
      merchant == w.MerchantLogin = r_config.merchant_id
  IN  (Len(r_log) = 1 /\ IsNumberText(sum)) =>
        /\ r_ret.success => verifies /\ merchant
        /\ ~verifies => /\ ~r_ret.raised
                        /\ r_ret.message = "Signature verification failed"
        /\ (verifies /\ ~merchant) => r_ret.message = "Merchant ID mismatch"
        /\ (verifies /\ merchant) =>
             /\ r_ret.success
             /\ r_ret.order_id = order_id
             /\ r_ret.amount = float_of(sum).milli
             /\ r_ret.operation_id = Get(w, "OperationId", <<>>)
             /\ r_ret.is_test = (w.IsTest = << Num(1) >>)

\* C19: a webhook without InvId, Sum, SignatureValue or MerchantLogin is
\* reported invalid by validate_webhook_request and is not accepted by
\* process_webhook, whatever its other fields hold.
C19_MissingFieldNeverAccepted ==
  ( /\ Len(r_log) = 1
    /\ \E field \in {"InvId", "Sum", "SignatureValue", "MerchantLogin"} :
         r_webhook[field] = Missing )
  => ~r_valid /\ ~r_ret.success

\* C20: the SignatureValue of every payment request is the signature of the
\* MerchantLogin, Sum and InvId strings of the request, its extra parameters
\* in key order and password1: the amount signed is the Sum sent.
C20_SignedSumIsSentSum ==
  \A i \in 1..Len(r_sent) :
    LET request == r_sent[i]
        keys == SortedKeys(request.extra_params)
        extras == [k \in 1..Len(keys) |->
                     << Txt(keys[k]), Equals >> \o request.extra_params[keys[k]]]
    IN  request.SignatureValue =
          md5(Join(<< request.MerchantLogin, request.Sum, request.InvId >>
                   \o extras \o << r_config.password1 >>))

\* --------------------------------------------------- claims on offers

\* The sum of the discounts of the offers applied so far.
RECURSIVE SumApplied(_)
SumApplied(applied) ==
  IF applied = <<>> THEN 0 ELSE Head(applied).applied_discount + SumApplied(Tail(applied))

\* C21: in apply_offers the k-th offer applied is discounted by
\* calculate_discount on the amount less the discounts of the offers applied
\* before it, its min_amount is reached by that remaining amount, its
\* discount is recorded as computed, and an offer is passed over only when
\* it is invalid or its discount on the remaining amount is zero.
C21_OffersStackOnRemaining ==
  [][\A t \in Threads :
       LET rest == loc[t].amount - SumApplied(loc[t].applied_offers)
       IN  /\ (pc[t] = "apply_loop" /\ pc'[t] = "apply_read") =>
                 /\ loc'[t].discount =
                      calculate_discount(offers[Head(loc[t].todo)], rest, now)
                 /\ offers[Head(loc[t].todo)].min_amount <= rest
           /\ (pc[t] = "apply_loop" /\ pc'[t] = "apply_loop" /\ loc'[t] # loc[t]) =>
                 \/ ~is_valid(offers[Head(loc[t].todo)], now)
                 \/ calculate_discount(offers[Head(loc[t].todo)], rest, now) = 0
           /\ (pc[t] = "apply_write" /\ pc'[t] = "apply_loop") =>
                 /\ loc'[t].applied_offers =
                      Append(loc[t].applied_offers,
                             [offer |-> offers[Head(loc[t].todo)].id,
                              applied_discount |-> loc[t].discount])
                 /\ loc'[t].total_discount = SumApplied(loc'[t].applied_offers)]_vars

\* C21 witness: on 52.00 the catalog's offers gave 5.20 (10%), nothing for
\* the cashback whose min_amount of 50.00 the remaining 46.80 misses, and
\* 23.40 (50% of 46.80).
C21_Witness ==
  \E i \in 1..Len(heap) :
    /\ heap[i].amount = 5200
    /\ heap[i].applied_offers =
         << [offer |-> "offer_001", applied_discount |-> 520],
            [offer |-> "offer_lim", applied_discount |-> 2340] >>
    /\ heap[i].final_amount = 2340

\* C22: when create_transaction is given a list of offer ids, apply_offers
\* considers exactly the offers the list names, in the order of the list,
\* passing over the ids that name no offer; its loop takes the offers
\* considered one by one and increments the usage of no other offer.
C22_ExactlyNamedOffers ==
  [][\A t \in Threads :
       /\ (pc[t] = "ct_id" /\ pc'[t] = "apply_loop" /\ loc[t].ids_given) =>
             LET known == SelectSeq(loc[t].offer_ids, HasOffer)
             IN  loc'[t].todo = [k \in 1..Len(known) |-> OfferIndex(known[k])]
       /\ (pc[t] \in {"apply_loop", "apply_read", "apply_write"} /\ loc'[t] # loc[t]) =>
             IF loc[t].todo = <<>>
             THEN offers' = offers /\ pc'[t] = "idle"
             ELSE /\ loc'[t].todo \in {loc[t].todo, Tail(loc[t].todo)}
                  /\ \A i \in 1..Len(offers) :
                        offers'[i] # offers[i] => i = Head(loc[t].todo)]_vars

\* The reference validity: active, inside the window (a missing bound does
\* not bound), and usage left (no limit, or current_usage below the limit).
ValidReference(o, t) ==
  /\ o.is_active
  /\ (o.valid_from = None \/ t >= o.valid_from)
  /\ (o.valid_until = None \/ t <= o.valid_until)
  /\ (o.usage_limit = None \/ o.current_usage < o.usage_limit)

\* The reference discount: nothing for an invalid offer or below the
\* minimum; the percentage of the amount, clamped to the cap when one is
\* set; the cashback, at most the amount; nothing for any other type.
DiscountReference(o, amount, t) ==
  IF ~ValidReference(o, t) \/ amount < o.min_amount THEN 0
  ELSE IF o.type = "discount"
    THEN LET discount == IF o.discount_percentage = None THEN 0
                         ELSE (amount * o.discount_percentage) \div 100
         IN  IF o.max_discount # None THEN Min(discount, o.max_discount) ELSE discount
  ELSE IF o.type = "cashback"
    THEN IF o.cashback_amount = None THEN 0 ELSE Min(o.cashback_amount, amount)
  ELSE 0

\* C23: calculate_discount returns the reference discount; the offer "10%
\* up to 50.00, minimum 10.00" gives 50.00 on 1000.00, 10.00 on 100.00 and
\* nothing on 5.00.
C23_DiscountAgreesWithReference ==
  calc_result # None =>
    /\ calc_result = DiscountReference(calc_offer, calc_amount, now)
    /\ ( /\ calc_offer.is_active /\ calc_offer.type = "discount"
          /\ calc_offer.discount_percentage = 10 /\ calc_offer.max_discount = 5000
          /\ calc_offer.min_amount = 1000 /\ calc_amount \in {500, 10000, 100000} )
        => calc_result = (CASE calc_amount = 100000 -> 5000
                            [] calc_amount = 10000 -> 1000
                            [] OTHER -> 0)

\* C24: is_valid holds at time now exactly when the offer is active, now is
\* inside its window and usage is left, for every usage limit, 0 included.
C24_ValidIffReference ==
  \A i \in 1..Len(offers) : is_valid(offers[i], now) <=> ValidReference(offers[i], now)

\* C25: the discounts a transaction records are those of its creation:
\* whatever happens later (an offer's percentage, cap, active flag or usage
\* counter is changed, the offer is applied again to a new transaction),
\* the applied_discount entries, total_discount and final_amount of every
\* transaction already created stay as they are.
C25_RecordedDiscountsAreSnapshot ==
  [][\A i \in 1..Len(heap) :
       /\ heap'[i].applied_offers = heap[i].applied_offers
       /\ heap'[i].total_discount = heap[i].total_discount
       /\ heap'[i].final_amount = heap[i].final_amount]_vars

\* C25 witness: offer_001 gave 50.00 on the first 1000.00; it was then
\* changed to 50% without a cap and gave 500.00 on the second 1000.00, was
\* switched off, and the first transaction still records 50.00.
C25_Witness ==
  /\ Len(heap) = 2
  /\ heap[1].applied_offers = << [offer |-> "offer_001", applied_discount |-> 5000] >>
  /\ heap[1].total_discount = 5000 /\ heap[1].final_amount = 95000
  /\ heap[2].applied_offers = << [offer |-> "offer_001", applied_discount |-> 50000] >>
  /\ ~offers[1].is_active

\* C26: the transactions create_transaction has made, concurrent calls
\* included, have ids that differ from one another, and each is still
\* stored under its id: no creation has overwritten another.
C26_TransactionIdsUnique ==
  /\ \A i, j \in 1..Len(heap) : i # j => heap[i].id # heap[j].id
  /\ \A i \in 1..Len(heap) :
       HasKey(transactions, heap[i].id) /\ transactions[heap[i].id] = i

\* The number of times the transactions of h record offer id as applied.
RECURSIVE RecordedUses(_, _)
RecordedUses(h, id) ==
  IF h = <<>> THEN 0
  ELSE Cardinality({k \in 1..Len(Head(h).applied_offers) :
                      Head(h).applied_offers[k].offer = id})
       + RecordedUses(Tail(h), id)

\* C27: create_transaction is all or nothing: once a call has returned,
\* either its transaction is stored whole, or (the creation failed) no
\* transaction is stored for it and no offer's current_usage counts it:
\* every use an offer counts is recorded in a stored transaction.
C27_CreateIsAtomic ==
  (\A t \in Threads : pc[t] = "idle") =>
    /\ \A i \in 1..Len(offers) :
         offers[i].current_usage = RecordedUses(heap, offers[i].id)
    /\ \A t \in Threads :
         ret[t].op = "create_transaction" =>
           IF ret[t].ok
           THEN HasKey(transactions, ret[t].id)
                  /\ AmountsConsistent(heap[transactions[ret[t].id]])
           ELSE ~HasKey(transactions, transaction_counter)

\* C28: a caller of get_transaction, whatever transition runs at the same
\* time, sees no mutation half applied: where it reads the status REFUNDED
\* it also reads the refund reason and the time of the refund in metadata.
C28_ReaderSeesWholeMutations ==
  \A t \in Threads :
    (ret[t].op = "get_transaction" /\ ret[t].ok /\ ret[t].seen.status = "refunded") =>
      /\ ret[t].seen.metadata.refund_reason # Absent
      /\ ret[t].seen.metadata.refunded_at # None

\* C29: a transaction's status and metadata change only
\* inside a process_payment or refund_transaction call on it; whenever
\* updated_at is written it is set to the time it is then, and every such
\* call that got past its checks returns with updated_at set to a time read
\* during the call; created_at never changes.
C29_MutationsStampUpdatedAt ==
  [][ /\ \A i \in 1..Len(heap) :
           /\ heap'[i].created_at = heap[i].created_at
           /\ heap'[i].updated_at # heap[i].updated_at => heap'[i].updated_at = now
           /\ ( \/ heap'[i].status # heap[i].status
                \/ heap'[i].metadata # heap[i].metadata ) =>
                 \E t \in Threads :
                   /\ loc[t].op \in {"process_payment", "refund_transaction"}
                   /\ loc[t].obj = i
      /\ \A t \in Threads :
           ( /\ pc[t] # "idle" /\ pc'[t] = "idle"
             /\ loc[t].op \in {"process_payment", "refund_transaction"} ) =>
               /\ loc[t].since <= heap'[loc[t].obj].updated_at
               /\ heap'[loc[t].obj].updated_at <= now ]_vars

\* C29 witness: a transaction created and paid at time 0 was refunded at
\* time 1: updated_at is 1, created_at still 0.
C29_Witness ==
  \E i \in 1..Len(heap) :
    /\ heap[i].status = "refunded"
    /\ heap[i].created_at = 0
    /\ heap[i].updated_at = 1
    /\ heap[i].metadata.refunded_at = 1

\* C30: display_offers (through get_available_offers) lists exactly the
\* offers that are valid and whose min_amount the amount reaches, in
\* catalog order, and changes no offer's current_usage, nothing of the
\* catalog and no transaction.
C30_AvailableOffersPure ==
  [][\A t \in Threads :
       (ret'[t] # ret[t] /\ ret'[t].op = "display_offers") =>
         LET listed == [k \in 1..Len(ret'[t].offers) |-> ret'[t].offers[k].offer]
             due(o) == ValidReference(o, now) /\ ret'[t].amount >= o.min_amount
             expected == SelectSeq(offers, due)
         IN  /\ listed = [k \in 1..Len(expected) |-> expected[k].id]
             /\ StoreUnchanged]_vars

\* ------------------------------------------- claims on failure results

\* C31: registering an offer whose id is already in the catalog fails
\* (add_offer returns False, create_offer raises) and changes neither the
\* catalog nor the offer history; registering a well-formed offer under a
\* new id adds exactly that offer (create_offer logs its "created" event).
C31_DuplicateIdRefused ==
  [][ /\ (ret'[1].op = "add_offer" /\ <<ret, offers>>' # <<ret, offers>>) =>
           LET id == ret'[1].offer_id
           IN  IF HasOffer(id)
               THEN ~ret'[1].ok /\ offers' = offers
               ELSE /\ ret'[1].ok
                    /\ \E o \in RegisterOffers : o.id = id /\ offers' = Append(offers, o)
      /\ (oh_ret'.op = "create_offer" /\ offerHandlerVars' # offerHandlerVars) =>
           LET id == oh_ret'.offer_id
           IN  IF id \in DOMAIN oh_offers \/ oh_ret'.raised
               THEN oh_ret'.raised /\ oh_offers' = oh_offers /\ oh_history' = oh_history
               ELSE /\ DOMAIN oh_offers' = DOMAIN oh_offers \cup {id}
                    /\ \A k \in DOMAIN oh_offers : oh_offers'[k] = oh_offers[k]
                    /\ \E amount \in OfferAmounts, pct \in OfferPercentages :
                         /\ ~post_init_raises(MkPaymentOffer(id, amount, pct, now))
                         /\ oh_offers'[id] = MkPaymentOffer(id, amount, pct, now)
                    /\ Len(oh_history') = Len(oh_history) + 1
                    /\ SubSeq(oh_history', 1, Len(oh_history)) = oh_history
                    /\ oh_history'[Len(oh_history')].offer_id = id
                    /\ oh_history'[Len(oh_history')].event_type = "created"
    ]_vars

\* Both registries refused a duplicate: offer_001 with other terms, and an
\* offer id that had been created and has since been cancelled.
C31_Witness ==
  /\ ret[1].op = "add_offer" /\ ~ret[1].ok /\ ret[1].offer_id = "offer_001"
  /\ offers[1].discount_percentage = 10
  /\ oh_ret.op = "create_offer" /\ oh_ret.raised
  /\ oh_ret.offer_id \in DOMAIN oh_offers
  /\ oh_offers[oh_ret.offer_id].status = "cancelled"

\* C32: process_payment and refund_transaction of the PaymentProcessor, and
\* refund_payment, cancel_payment and get_transaction_status of the
\* PaymentHandler, called with a transaction id that is not stored, return
\* a failure result (they do not raise) and change no stored transaction
\* and no offer.
C32_UnknownIdFailsCleanly ==
  [][ /\ \A t \in Threads :
           ( /\ pc[t] = "idle" /\ ret'[t] # ret[t]
             /\ ret'[t].op \in {"process_payment", "refund_transaction"}
             /\ ~HasKey(transactions, ret'[t].id) ) =>
               /\ ~ret'[t].ok
               /\ ret'[t].msg = "Transaction not found"
               /\ UNCHANGED <<offers, heap, transactions, transaction_counter>>
      /\ ( /\ h_pc = "idle" /\ h_ret' # h_ret
           /\ h_ret'.op \in {"refund_payment", "cancel_payment", "get_transaction_status"}
           /\ ~HasKey(h_transactions, h_ret'.id) ) =>
             /\ ~h_ret'.ok
             /\ h_ret'.status = "not_found"
             /\ UNCHANGED <<h_transactions, offers>>
    ]_vars

\* An unknown id was refused while a transaction is stored: by the
\* processor's refund_transaction, or by the handler's cancel_payment.
C32_Witness ==
  \/ /\ ret[1].op = "refund_transaction" /\ ret[1].msg = "Transaction not found"
     /\ ~HasKey(transactions, ret[1].id) /\ Len(heap) > 0
  \/ /\ h_ret.op = "cancel_payment" /\ h_ret.status = "not_found"
     /\ ~HasKey(h_transactions, h_ret.id) /\ DOMAIN h_transactions # {}

\* C33: a payment or transaction whose amount is <= 0 is rejected and
\* nothing is stored for it: no record of the PaymentProcessor and none of
\* the PaymentHandler has an amount <= 0.
C33_NonPositiveAmountStoresNothing ==
  /\ \A i \in 1..Len(heap) : heap[i].amount > 0
  /\ \A id \in DOMAIN h_transactions : h_transactions[id].amount > 0

\* C34: a step of process_payment or refund_transaction on one transaction
\* leaves every other transaction's record as it was, and changes no offer
\* and no entry of the transactions dict.
C34_TransitionTouchesOnlyItsTransaction ==
  [][ \A t \in Threads :
        ( /\ loc[t].op \in {"process_payment", "refund_transaction"}
          /\ pc'[t] # pc[t] ) =>
            /\ \A i \in 1..Len(heap) : i # loc[t].obj => heap'[i] = heap[i]
            /\ Len(heap') = Len(heap)
            /\ UNCHANGED <<offers, transactions, transaction_counter>>
    ]_vars

\* C35: every stored transaction's total_discount is the sum of the
\* applied_discount of its applied_offers, each of them > 0, and every
\* offer's current_usage counts one use per entry that names it, in the
\* stored transactions and in the creation under way (an offer whose
\* discount is zero is neither listed nor counted).
C35_DiscountsAndUsageMatchAppliedOffers ==
  /\ \A i \in 1..Len(heap) :
       /\ heap[i].total_discount = SumApplied(heap[i].applied_offers)
       /\ \A k \in 1..Len(heap[i].applied_offers) :
            heap[i].applied_offers[k].applied_discount > 0
  /\ \A j \in 1..Len(offers) :
       offers[j].current_usage =
         RecordedUses(heap, offers[j].id)
           + RecordedUses(<< [applied_offers |-> loc[1].applied_offers] >>, offers[j].id)

\* A transaction is stored on which the 10% offer was applied and counted
\* while the free-shipping offer, whose discount is zero, was not.
C35_Witness ==
  \E i \in 1..Len(heap) :
    /\ heap[i].amount = 100000 /\ Len(heap[i].applied_offers) > 0
    /\ heap[i].applied_offers[1].offer = "offer_001"
    /\ offers[1].current_usage = 1
    /\ offers[3].id = "offer_003" /\ offers[3].current_usage = 0
    /\ is_valid(offers[3], heap[i].created_at) /\ offers[3].min_amount <= heap[i].amount

\* C36: apply_offers given an empty list of offer ids (as opposed to no
\* list) considers no offer, so that it applies none: no discount, no
\* usage incremented.
C36_EmptyIdListAppliesNothing ==
  [][\A t \in Threads :
       ( /\ pc[t] = "ct_id" /\ pc'[t] = "apply_loop"
         /\ loc[t].ids_given /\ loc[t].offer_ids = <<>> ) =>
           loc'[t].todo = <<>>]_vars

\* Between two calls of the PaymentHandler every stored transaction is
\* COMPLETED, FAILED or REFUNDED: none is left PENDING or PROCESSING for
\* cancel_payment to find, and none is CANCELLED.
SettledBetweenCalls ==
  /\ h_pc = "idle" =>
       \A id \in DOMAIN h_transactions :
         h_transactions[id].status \in {"completed", "failed", "refunded"}
  /\ ~(h_ret.op = "cancel_payment" /\ h_ret.ok)

\* C37: cancel_payment of the PaymentHandler can succeed: callers that make
\* process_payment, refund_payment and cancel_payment calls one after the
\* other, and keep making them, get to a cancel_payment that finds its
\* transaction PENDING or PROCESSING and moves it to CANCELLED.
C37_CancelCanSucceed ==
  <>(h_ret.op = "cancel_payment" /\ h_ret.ok)

\* C38: after a successful refund_payment the recorded refund_amount is
\* > 0 and at most the transaction's amount, and it is the refund_amount
\* requested when one was given; a request outside that range fails and
\* leaves the transaction COMPLETED.
C38_RefundAmountInRange ==
  [][ (h_ret'.op = "refund_payment" /\ handlerVars' # handlerVars
         /\ HasKey(h_transactions, h_ret'.id)
         /\ h_transactions[h_ret'.id].status = "completed") =>
        LET before == h_transactions[h_ret'.id]
            after == h_transactions'[h_ret'.id]
            requested == h_ret'.requested
        IN  IF requested # None /\ ~(0 < requested /\ requested <= before.amount)
            THEN ~h_ret'.ok /\ after = before
            ELSE /\ h_ret'.ok
                 /\ after.status = "refunded"
                 /\ after.refund_amount =
                      (IF requested # None THEN requested ELSE before.amount)
                 /\ 0 < after.refund_amount /\ after.refund_amount <= before.amount
    ]_vars

\* C39: in the OfferHandler, approve_offer moves only a PENDING_APPROVAL
\* offer to APPROVED; an offer that is CANCELLED or ACCEPTED is not made
\* ACTIVE, APPROVED or ACCEPTED again by approve_offer, activate_offer or
\* accept_offer; and no offer is ever removed.
C39_OfferLifecycleRespected ==
  [][ /\ DOMAIN oh_offers \subseteq DOMAIN oh_offers'
      /\ ( /\ oh_ret'.op \in {"approve_offer", "activate_offer", "accept_offer"}
           /\ ~oh_ret'.raised
           /\ oh_history' # oh_history ) =>
             LET before == oh_offers[oh_ret'.offer_id].status
                 after == oh_offers'[oh_ret'.offer_id].status
             IN  /\ oh_ret'.op = "approve_offer" =>
                      before = "pending_approval" /\ after = "approved"
                 /\ before \in {"cancelled", "accepted"} => after = before
    ]_vars

====
